---- MODULE Spec2Model ----
(***************************************************************************)
(* Rigid-body simulation core of vulkan-gpu-physics: the ECS component     *)
(* store (ECSManager), the rigid-body factories, the CPU physics engine    *)
(* with its layer table and collision system, and the older all-in-one     *)
(* CPUPhysicsSystem.                                                       *)
(*                                                                         *)
(* Numbers.  The code computes in IEEE-754 single precision.  A float is   *)
(* modelled as a fixed-point integer counting hundredths (1.0 is 100), a   *)
(* product or quotient being truncated toward zero to the grid, plus the   *)
(* three special values NaN, +Inf and -Inf with their IEEE rules for       *)
(* comparison and arithmetic.                                              *)
(***************************************************************************)
EXTENDS Integers, Sequences, FiniteSets, TLC

VARIABLES
    entities,               \* ECSManager::entities (vector of live ids)
    nextEntityId,           \* ECSManager::nextEntityId
    transformComponents,    \* ECSManager::transformComponents
    physicsComponents,      \* ECSManager::physicsComponents
    boxColliderComponents,  \* ECSManager::boxColliderComponents
    layers,                 \* CPUPhysicsEngine::layers
    nextLayerId,            \* CPUPhysicsEngine::nextLayerId
    legacyRigidBodies,      \* CPUPhysicsEngine::legacyRigidBodies
    Engine_maxRigidBodies,  \* CPUPhysicsEngine::maxRigidBodies
    canLayersInteract,      \* CPUPhysicsCollisionSystem::canLayersInteract (callback)
    gravity,                \* CPUPhysicsCollisionSystem::gravity
    activeCollisions,       \* CPUPhysicsCollisionSystem::activeCollisions
    lastCollisionCount,     \* CPUPhysicsCollisionSystem::lastCollisionCount
    rigidBodies,            \* CPUPhysicsSystem::rigidBodies
    System_nextEntityId,    \* CPUPhysicsSystem::nextEntityId
    maxRigidBodies,         \* CPUPhysicsSystem::maxRigidBodies
    System_layers,          \* CPUPhysicsSystem::layers
    System_nextLayerId,     \* CPUPhysicsSystem::nextLayerId
    System_gravity,         \* CPUPhysicsSystem::gravity
    System_resolved,        \* history: the pairs the last updatePhysics handed to resolveCollision
    layerWorker,            \* a PhysicsLayerWorker object (its four fields)
    layerSystem,            \* the LayerSystem singleton (its four fields)
    BroadPhase_rigidBodies, \* the rigidBodies vector handed to BroadPhaseWorker::updateBroadPhase
    BroadPhase_collisionPairs, \* the collisionPairs vector updateBroadPhase fills
    enhanced,               \* an EnhancedCPUPhysicsCollisionSystem (with its BaseCPUPhysicsSystem fields)
    lifecycle,              \* history: where that system is between initialize and cleanup
    rigidBodyWorker,        \* a RigidBodyWorker object
    rigidBodySystem,        \* a RigidBodySystem object
    issued,                 \* history: per pool, the body each live id was handed out for
    collisionManager,       \* the CollisionManager singleton
    consumed,               \* history: the contact list has been through resolveContacts
    returned,               \* history: the ids createEntity has returned, in order
    createdBy,              \* history: the factory operation that created each entity
    bodyLayer,              \* history: the layer argument each body was created with
    ticks,                  \* history: number of update(dt) calls so far
    assigned,               \* history: per registry, the id createLayer gave each name
    revoked,                \* history: per registry, the layer pairs whose interaction was revoked
    atDetection,            \* history: what collision detection read in the last update
    last                    \* history: the last call, its result and whether it changed the store

vars == <<entities, nextEntityId, transformComponents, physicsComponents,
          boxColliderComponents, layers, nextLayerId, legacyRigidBodies,
          Engine_maxRigidBodies, canLayersInteract, gravity, activeCollisions, lastCollisionCount,
          rigidBodies, System_nextEntityId, maxRigidBodies,
          System_layers, System_nextLayerId, System_gravity, System_resolved,
          layerWorker, layerSystem, BroadPhase_rigidBodies, BroadPhase_collisionPairs,
          enhanced, lifecycle, rigidBodyWorker, rigidBodySystem, issued,
          collisionManager, consumed,
          returned, createdBy, bodyLayer, ticks, assigned, revoked, atDetection, last>>

storeVars == <<entities, nextEntityId, transformComponents, physicsComponents,
               boxColliderComponents>>

broadPhaseVars == <<BroadPhase_rigidBodies, BroadPhase_collisionPairs>>

enhancedVars == <<enhanced, lifecycle>>

poolVars == <<rigidBodyWorker, rigidBodySystem, issued>>

collisionManagerVars == <<collisionManager, consumed>>

componentVars == <<enhancedVars, poolVars, collisionManagerVars>>

engineVars == <<layers, nextLayerId, legacyRigidBodies, Engine_maxRigidBodies, canLayersInteract,
                gravity, activeCollisions, lastCollisionCount>>

systemVars == <<rigidBodies, System_nextEntityId, maxRigidBodies,
                System_layers, System_nextLayerId, System_gravity, System_resolved>>

registryVars == <<layerWorker, layerSystem, assigned, revoked>>

systemLayerVars == <<System_layers, System_nextLayerId, System_gravity>>

(***************************************************************************)
(* Bounds of the exploration.                                              *)
(***************************************************************************)
MaxEntityId == 2        \* createEntity is explored while nextEntityId <= MaxEntityId
MaxBodies == 2          \* ids handed out by the factories / the system in one run
MaxTicks == 1           \* update(dt) calls in one run
MaxLayerId == 3         \* the layer ids createLayer hands out in one run
MaxBroadPhaseBodies == 2 \* length of the vector handed to updateBroadPhase
MaxPoolAdds == 3        \* successful addRigidBody / createRigidBody calls on a pool in one run
MaxFreeIds == 3         \* RigidBodySystem::removeRigidBody is explored while freeIds is shorter

(***************************************************************************)
(* float                                                                   *)
(***************************************************************************)
Unit == 100
PosInf == 1000000000
NegInf == -1000000000
NaN == 2000000000

IsNaN(a) == a = NaN
IsInf(a) == a = PosInf \/ a = NegInf
isfinite(a) == ~IsNaN(a) /\ ~IsInf(a)

\* IEEE comparisons: every ordered comparison with a NaN is false.
FLt(a, b) == ~IsNaN(a) /\ ~IsNaN(b) /\ a < b
FLe(a, b) == ~IsNaN(a) /\ ~IsNaN(b) /\ a <= b
FGt(a, b) == FLt(b, a)
FGe(a, b) == FLe(b, a)

Sign(a) == IF a > 0 THEN 1 ELSE IF a < 0 THEN -1 ELSE 0
TDiv(n, d) == Sign(n) * Sign(d) *
              ((IF n < 0 THEN -n ELSE n) \div (IF d < 0 THEN -d ELSE d))
SignedInf(s) == IF s > 0 THEN PosInf ELSE NegInf

FNeg(a) == IF IsNaN(a) THEN NaN ELSE -a
FAbs(a) == IF IsNaN(a) THEN NaN ELSE IF a < 0 THEN -a ELSE a

FAdd(a, b) ==
    IF IsNaN(a) \/ IsNaN(b) THEN NaN
    ELSE IF IsInf(a) /\ IsInf(b) THEN (IF a = b THEN a ELSE NaN)
    ELSE IF IsInf(a) THEN a
    ELSE IF IsInf(b) THEN b
    ELSE a + b

FSub(a, b) == FAdd(a, FNeg(b))

FMul(a, b) ==
    IF IsNaN(a) \/ IsNaN(b) THEN NaN
    ELSE IF IsInf(a) \/ IsInf(b)
         THEN (IF a = 0 \/ b = 0 THEN NaN ELSE SignedInf(Sign(a) * Sign(b)))
    ELSE TDiv(a * b, Unit)

FDiv(a, b) ==
    IF IsNaN(a) \/ IsNaN(b) THEN NaN
    ELSE IF IsInf(a) THEN (IF IsInf(b) THEN NaN
                           ELSE SignedInf(Sign(a) * (IF b < 0 THEN -1 ELSE 1)))
    ELSE IF IsInf(b) THEN 0
    ELSE IF b = 0 THEN (IF a = 0 THEN NaN ELSE SignedInf(Sign(a)))
    ELSE TDiv(a * Unit, b)

\* std::min(a, b) is (b < a) ? b : a
FMin(a, b) == IF FLt(b, a) THEN b ELSE a

Axes == {1, 2, 3}
Zero3 == <<0, 0, 0>>

(***************************************************************************)
(* Hash-map tables                                                         *)
(***************************************************************************)
EmptyTable == <<>>
Has(t, k) == k \in DOMAIN t
Put(t, k, v) == (k :> v) @@ t
Erase(t, k) == [x \in (DOMAIN t) \ {k} |-> t[x]]

Range(s) == {s[i] : i \in DOMAIN s}
RemoveFirst(s, v) ==
    LET i == CHOOSE k \in DOMAIN s : s[k] = v /\ \A j \in 1..(k - 1) : s[j] # v
    IN  [k \in 1..(Len(s) - 1) |-> IF k < i THEN s[k] ELSE s[k + 1]]

NoCall == [op |-> "none", id |-> 0, rid |-> 0, ret |-> FALSE,
           valid |-> FALSE, had |-> FALSE, same |-> TRUE, threw |-> "none",
           name |-> <<"", 0>>, registry |-> "none"]


(***************************************************************************)
(* Layer registries (managers/physicsmanager): PhysicsLayerWorker and      *)
(* LayerSystem.  Each keeps nextLayerId, the two name maps and a matrix of *)
(* 64-bit masks, a mask being modelled as the set of its bits that are 1.  *)
(* A layer name is written <<text, number>>: "Default" is <<"Default", 0>>, *)
(* the empty string is <<"", 0>> and "Layer7" is <<"Layer", 7>>.           *)
(* LayerSystem.cpp uses the constants INVALID_LAYER, DEFAULT_LAYER and     *)
(* MAX_LAYERS of its header under the names PhysicsLayerWorker.h declares; *)
(* both registries take the values declared there.                         *)
(***************************************************************************)
INVALID_LAYER == 0
DEFAULT_LAYER == 1
MAX_LAYERS == 64

DefaultName == <<"Default", 0>>
EmptyName == <<"", 0>>
LayerName(k) == <<"Layer", k>>

MaskBits == 0..(MAX_LAYERS - 1)
NoBits == {}
AllBits == MaskBits                 \* ~0ULL

NoThrow == "none"

\* PhysicsLayerWorker::reset assigns all four fields.
Worker_reset(W) ==
    [nextLayerId |-> DEFAULT_LAYER + 1,
     layerNameToId |-> EmptyTable,
     layerIdToName |-> EmptyTable,
     layerInteractionMatrix |-> [i \in MaskBits |-> AllBits]]

\* The constructor leaves the maps empty.
Worker_new == Worker_reset(EmptyTable)

Worker_initializeDefaultLayers(W) ==
    [W EXCEPT !.layerNameToId = Put(@, DefaultName, DEFAULT_LAYER),
              !.layerIdToName = Put(@, DEFAULT_LAYER, DefaultName)]

Worker_initialize(W) == Worker_initializeDefaultLayers(Worker_reset(W))

Worker_cleanup(W) == Worker_reset(W)

\* As createLayer, without the lookup of the name.
Worker_createLayer_noLookup(W, name) ==
    IF name = EmptyName
    THEN [id |-> INVALID_LAYER, threw |-> "invalid_argument", registry |-> W]
    ELSE IF W.nextLayerId >= MAX_LAYERS
    THEN [id |-> INVALID_LAYER, threw |-> "runtime_error", registry |-> W]
    ELSE [id |-> W.nextLayerId, threw |-> NoThrow,
          registry |-> [W EXCEPT !.nextLayerId = @ + 1,
                                 !.layerNameToId = Put(@, name, W.nextLayerId),
                                 !.layerIdToName = Put(@, W.nextLayerId, name)]]

Worker_createLayer(W, name) ==
    IF name = EmptyName
    THEN [id |-> INVALID_LAYER, threw |-> "invalid_argument", registry |-> W]
    ELSE IF Has(W.layerNameToId, name)
    THEN [id |-> W.layerNameToId[name], threw |-> NoThrow, registry |-> W]
    ELSE IF W.nextLayerId >= MAX_LAYERS
    THEN [id |-> INVALID_LAYER, threw |-> "runtime_error", registry |-> W]
    ELSE [id |-> W.nextLayerId, threw |-> NoThrow,
          registry |-> [W EXCEPT !.nextLayerId = @ + 1,
                                 !.layerNameToId = Put(@, name, W.nextLayerId),
                                 !.layerIdToName = Put(@, W.nextLayerId, name)]]

Worker_isValidLayer(W, layerId) ==
    /\ layerId # INVALID_LAYER
    /\ layerId < MAX_LAYERS
    /\ Has(W.layerIdToName, layerId)

\* As setLayerInteraction, writing the row of layerA only.
Worker_setLayerInteraction_oneWay(W, layerA, layerB, canInteract) ==
    IF ~Worker_isValidLayer(W, layerA) \/ ~Worker_isValidLayer(W, layerB) THEN W
    ELSE IF canInteract
    THEN [W EXCEPT !.layerInteractionMatrix[layerA] = @ \cup {layerB}]
    ELSE [W EXCEPT !.layerInteractionMatrix[layerA] = @ \ {layerB}]

Worker_setLayerInteraction(W, layerA, layerB, canInteract) ==
    IF ~Worker_isValidLayer(W, layerA) \/ ~Worker_isValidLayer(W, layerB) THEN W
    ELSE IF canInteract
    THEN LET M1 == [W.layerInteractionMatrix EXCEPT ![layerA] = @ \cup {layerB}]
         IN  [W EXCEPT !.layerInteractionMatrix = [M1 EXCEPT ![layerB] = @ \cup {layerA}]]
    ELSE LET M1 == [W.layerInteractionMatrix EXCEPT ![layerA] = @ \ {layerB}]
         IN  [W EXCEPT !.layerInteractionMatrix = [M1 EXCEPT ![layerB] = @ \ {layerA}]]

Worker_canLayersInteract(W, layerA, layerB) ==
    IF ~Worker_isValidLayer(W, layerA) \/ ~Worker_isValidLayer(W, layerB) THEN FALSE
    ELSE layerB \in W.layerInteractionMatrix[layerA]

Worker_getLayerCount(W) == Cardinality(DOMAIN W.layerNameToId)

LayerSystem_isValidLayer(W, layerId) ==
    /\ layerId # INVALID_LAYER
    /\ layerId < MAX_LAYERS
    /\ Has(W.layerIdToName, layerId)

\* LayerSystem::setLayerInteraction throws for a layer that is not valid.
LayerSystem_setLayerInteraction(W, layerA, layerB, canInteract) ==
    IF ~LayerSystem_isValidLayer(W, layerA) \/ ~LayerSystem_isValidLayer(W, layerB)
    THEN [threw |-> "invalid_argument", registry |-> W]
    ELSE IF canInteract
    THEN LET M1 == [W.layerInteractionMatrix EXCEPT ![layerA] = @ \cup {layerB}]
         IN  [threw |-> NoThrow,
              registry |-> [W EXCEPT !.layerInteractionMatrix =
                                         [M1 EXCEPT ![layerB] = @ \cup {layerA}]]]
    ELSE LET M1 == [W.layerInteractionMatrix EXCEPT ![layerA] = @ \ {layerB}]
         IN  [threw |-> NoThrow,
              registry |-> [W EXCEPT !.layerInteractionMatrix =
                                         [M1 EXCEPT ![layerB] = @ \ {layerA}]]]

LayerSystem_initializeDefaultLayers(W) ==
    LayerSystem_setLayerInteraction(
        [W EXCEPT !.layerNameToId = Put(@, DefaultName, DEFAULT_LAYER),
                  !.layerIdToName = Put(@, DEFAULT_LAYER, DefaultName)],
        DEFAULT_LAYER, DEFAULT_LAYER, TRUE).registry

\* reset assigns all four fields, then registers "Default" again.
LayerSystem_reset(W) ==
    LayerSystem_initializeDefaultLayers(
        [nextLayerId |-> DEFAULT_LAYER + 1,
         layerNameToId |-> EmptyTable,
         layerIdToName |-> EmptyTable,
         layerInteractionMatrix |-> [i \in MaskBits |-> NoBits]])

\* The constructor: the same assignments as reset.
LayerSystem_new == LayerSystem_reset(EmptyTable)

LayerSystem_createLayer(W, name) ==
    IF name = EmptyName
    THEN [id |-> INVALID_LAYER, threw |-> "invalid_argument", registry |-> W]
    ELSE IF Has(W.layerNameToId, name)
    THEN [id |-> W.layerNameToId[name], threw |-> NoThrow, registry |-> W]
    ELSE IF W.nextLayerId >= MAX_LAYERS
    THEN [id |-> INVALID_LAYER, threw |-> "runtime_error", registry |-> W]
    ELSE LET newLayerId == W.nextLayerId
             W1 == [W EXCEPT !.nextLayerId = @ + 1,
                             !.layerNameToId = Put(@, name, newLayerId),
                             !.layerIdToName = Put(@, newLayerId, name)]
             W2 == LayerSystem_setLayerInteraction(W1, newLayerId, newLayerId, TRUE).registry
             W3 == LayerSystem_setLayerInteraction(W2, newLayerId, DEFAULT_LAYER, TRUE).registry
             W4 == LayerSystem_setLayerInteraction(W3, DEFAULT_LAYER, newLayerId, TRUE).registry
         IN  [id |-> newLayerId, threw |-> NoThrow, registry |-> W4]

LayerSystem_canLayersInteract(W, layerA, layerB) ==
    IF ~LayerSystem_isValidLayer(W, layerA) \/ ~LayerSystem_isValidLayer(W, layerB) THEN FALSE
    ELSE layerB \in W.layerInteractionMatrix[layerA]

LayerSystem_getLayerCount(W) == Cardinality(DOMAIN W.layerIdToName)

\* The revoked pairs after a setLayerInteraction call that took effect.
Revoked(pairs, layerA, layerB, canInteract) ==
    IF canInteract THEN pairs \ {<<layerA, layerB>>, <<layerB, layerA>>}
    ELSE pairs \cup {<<layerA, layerB>>, <<layerB, layerA>>}

\* Both registries right after construction.
InitLayerRegistries ==
    /\ layerWorker = Worker_new
    /\ layerSystem = LayerSystem_new
    /\ assigned = [worker |-> Worker_new.layerNameToId,
                   system |-> LayerSystem_new.layerNameToId]
    /\ revoked = [worker |-> {}, system |-> {}, engine |-> {}]

(***************************************************************************)
(* Components and RigidBodyComponentFactory                                *)
(***************************************************************************)
initializeQuaternion == <<100, 0, 0, 0>>

createTransformComponent(x, y, z, sx, sy, sz) ==
    [position |-> <<x, y, z>>, rotation |-> initializeQuaternion,
     scale |-> <<sx, sy, sz>>]

calculateInverseMass(physics) ==
    IF physics.isStatic \/ FLe(physics.mass, 0)
    THEN [physics EXCEPT !.invMass = 0]
    ELSE [physics EXCEPT !.invMass = FDiv(100, physics.mass)]

\* A default-constructed PhysicsComponent (invMass = 1.0f) with the fields
\* createPhysicsComponent assigns, before calculateInverseMass runs.
createPhysicsComponent(mass, isStatic, useGravity, restitution, friction) ==
    calculateInverseMass(
        [velocity |-> Zero3, angularVelocity |-> Zero3, mass |-> mass,
         invMass |-> 100, restitution |-> restitution, friction |-> friction,
         isStatic |-> isStatic, useGravity |-> useGravity])

createBoxColliderComponent(width, height, depth, enabled) ==
    [width |-> width, height |-> height, depth |-> depth, enabled |-> enabled]

createTransformAt(x, y, z) == createTransformComponent(x, y, z, 100, 100, 100)
createStaticPhysics == createPhysicsComponent(0, TRUE, FALSE, 30, 80)
createDynamicPhysics(mass) == createPhysicsComponent(mass, FALSE, TRUE, 50, 30)
createBoxCollider(width, height, depth) ==
    createBoxColliderComponent(width, height, depth, TRUE)

validateTransformComponent(transform) ==
    /\ \A i \in Axes : isfinite(transform.position[i]) /\ isfinite(transform.scale[i])
    /\ \A i \in 1..4 : isfinite(transform.rotation[i])
    /\ ~(\E i \in Axes : FLe(transform.scale[i], 0))

validatePhysicsComponent(physics) ==
    /\ ~(FLt(physics.mass, 0) \/ ~isfinite(physics.mass))
    /\ \A i \in Axes : isfinite(physics.velocity[i]) /\ isfinite(physics.angularVelocity[i])
    /\ ~(FLt(physics.restitution, 0) \/ FGt(physics.restitution, 100) \/
         FLt(physics.friction, 0) \/ FGt(physics.friction, 100))

validateBoxColliderComponent(collider) ==
    /\ ~(FLe(collider.width, 0) \/ FLe(collider.height, 0) \/ FLe(collider.depth, 0))
    /\ isfinite(collider.width) /\ isfinite(collider.height) /\ isfinite(collider.depth)

(***************************************************************************)
(* ECSManager.  A store value S is the record of the manager's fields.     *)
(***************************************************************************)
Store == [entities |-> entities, nextEntityId |-> nextEntityId,
          transformComponents |-> transformComponents,
          physicsComponents |-> physicsComponents,
          boxColliderComponents |-> boxColliderComponents]

NewStore == [entities |-> <<>>, nextEntityId |-> 1,
             transformComponents |-> EmptyTable,
             physicsComponents |-> EmptyTable,
             boxColliderComponents |-> EmptyTable]

SetStore(S) ==
    /\ entities' = S.entities
    /\ nextEntityId' = S.nextEntityId
    /\ transformComponents' = S.transformComponents
    /\ physicsComponents' = S.physicsComponents
    /\ boxColliderComponents' = S.boxColliderComponents

ComponentTypes == {"transformComponents", "physicsComponents", "boxColliderComponents"}

\* The smallest id no live entity uses: what a recycling id pool would hand out.
createEntity_recycling(S) ==
    LET id == CHOOSE k \in 1..(Len(S.entities) + 1) :
                  /\ k \notin Range(S.entities)
                  /\ \A j \in 1..(k - 1) : j \in Range(S.entities)
    IN  [id |-> id,
         store |-> [S EXCEPT !.entities = Append(@, id), !.nextEntityId = @ + 1]]

createEntity(S) ==
    [id |-> S.nextEntityId,
     store |-> [S EXCEPT !.entities = Append(@, S.nextEntityId),
                         !.nextEntityId = @ + 1]]

isEntityValid(S, entityId) == entityId \in Range(S.entities)

destroyEntity_keepsComponents(S, entityId) ==
    IF ~isEntityValid(S, entityId)
    THEN [ok |-> FALSE, store |-> S]
    ELSE [ok |-> TRUE,
          store |-> [S EXCEPT !.transformComponents = Erase(@, entityId),
                              !.physicsComponents = Erase(@, entityId),
                              !.entities = RemoveFirst(@, entityId)]]

destroyEntity(S, entityId) ==
    IF ~isEntityValid(S, entityId)
    THEN [ok |-> FALSE, store |-> S]
    ELSE [ok |-> TRUE,
          store |-> [S EXCEPT !.transformComponents = Erase(@, entityId),
                              !.physicsComponents = Erase(@, entityId),
                              !.boxColliderComponents = Erase(@, entityId),
                              !.entities = RemoveFirst(@, entityId)]]

\* The three typed overloads differ only in the table they write.
addComponent(S, entityId, type, component) ==
    IF ~isEntityValid(S, entityId)
    THEN [ok |-> FALSE, store |-> S]
    ELSE [ok |-> TRUE, store |-> [S EXCEPT ![type] = Put(@, entityId, component)]]

removeComponent(S, entityId, type) ==
    [ok |-> Has(S[type], entityId),
     store |-> [S EXCEPT ![type] = Erase(@, entityId)]]

hasComponent(S, entityId, type) == Has(S[type], entityId)

(***************************************************************************)
(* Initial state: a freshly constructed ECSManager, a CPUPhysicsEngine     *)
(* after initialize(), a CPUPhysicsSystem after initialize().              *)
(***************************************************************************)
DefaultGravity == <<0, -981, 0>>

InitStore ==
    /\ entities = <<>>
    /\ nextEntityId = 1
    /\ transformComponents = EmptyTable
    /\ physicsComponents = EmptyTable
    /\ boxColliderComponents = EmptyTable

\* An EnhancedCPUPhysicsCollisionSystem right after construction on a
\* non-null ECSManager.
Enhanced_new ==
    [initialized |-> FALSE, enabled |-> TRUE, lastEntityCount |-> 0,
     activeCollisions |-> <<>>, lastCollisionCount |-> 0,
     broadPhaseEnabled |-> TRUE, collisionResponseEnabled |-> TRUE]

InitEnhancedIdle ==
    /\ enhanced = Enhanced_new
    /\ lifecycle = [phase |-> "constructed", enabledBefore |-> FALSE]

\* A RigidBodyWorker right after construction.
RigidBodyWorker_new ==
    [initialized |-> FALSE, maxRigidBodies |-> 512, nextId |-> 1,
     rigidBodies |-> <<>>, freeIds |-> <<>>]

\* A RigidBodySystem right after construction.
RigidBodySystem_new ==
    [maxRigidBodies |-> 0, nextId |-> 0, rigidBodies |-> <<>>, freeIds |-> <<>>]

InitPoolsIdle ==
    /\ rigidBodyWorker = RigidBodyWorker_new
    /\ rigidBodySystem = RigidBodySystem_new
    /\ issued = [worker |-> <<>>, system |-> <<>>]

\* The CollisionManager singleton before initialize().
CollisionManager_new ==
    [initialized |-> FALSE, maxContacts |-> 1024, contactCount |-> 0,
     contacts |-> <<>>, collisionPairs |-> <<>>]

InitCollisionManagerIdle ==
    /\ collisionManager = CollisionManager_new
    /\ consumed = FALSE

InitComponentsIdle == InitEnhancedIdle /\ InitPoolsIdle /\ InitCollisionManagerIdle

\* No vector has been handed to a BroadPhaseWorker.
InitBroadPhaseIdle ==
    /\ BroadPhase_rigidBodies = <<>>
    /\ BroadPhase_collisionPairs = <<>>

InitHistory ==
    /\ returned = <<>>
    /\ createdBy = EmptyTable
    /\ bodyLayer = EmptyTable
    /\ ticks = 0
    /\ atDetection = [store |-> NewStore, layers |-> EmptyTable, cb |-> "unset",
                      candidates |-> <<>>]
    /\ last = NoCall

(***************************************************************************)
(* The component store used directly: ECSManager's public operations.      *)
(***************************************************************************)
EntityIdInputs == 0..MaxEntityId

ComponentInputs(type) ==
    IF type = "transformComponents"
    THEN {createTransformAt(0, 0, 0), createTransformAt(150, 0, 0)}
    ELSE IF type = "physicsComponents"
    THEN {createDynamicPhysics(100)}
    ELSE {createBoxCollider(200, 200, 200)}

HasAny(S, entityId) == \E type \in ComponentTypes : Has(S[type], entityId)

ECS_createEntity ==
    /\ nextEntityId <= MaxEntityId
    /\ \E r \in {createEntity(Store)} :
           /\ SetStore(r.store)
           /\ returned' = Append(returned, r.id)
           /\ last' = [NoCall EXCEPT !.op = "createEntity", !.rid = r.id,
                                     !.ret = TRUE, !.same = FALSE]
    /\ UNCHANGED <<broadPhaseVars, componentVars, registryVars, engineVars, systemVars, createdBy, bodyLayer, ticks, atDetection>>

ECS_destroyEntity(entityId) ==
    /\ \E r \in {destroyEntity(Store, entityId)} :
           /\ SetStore(r.store)
           /\ last' = [NoCall EXCEPT !.op = "destroyEntity", !.id = entityId,
                                     !.ret = r.ok,
                                     !.valid = isEntityValid(Store, entityId),
                                     !.had = HasAny(Store, entityId),
                                     !.same = (r.store = Store)]
    /\ UNCHANGED <<broadPhaseVars, componentVars, registryVars, engineVars, systemVars, returned, createdBy, bodyLayer, ticks, atDetection>>

ECS_addComponent(entityId, type, component) ==
    /\ \E r \in {addComponent(Store, entityId, type, component)} :
           /\ SetStore(r.store)
           /\ last' = [NoCall EXCEPT !.op = "addComponent", !.id = entityId,
                                     !.ret = r.ok,
                                     !.valid = isEntityValid(Store, entityId),
                                     !.had = Has(Store[type], entityId),
                                     !.same = (r.store = Store)]
    /\ UNCHANGED <<broadPhaseVars, componentVars, registryVars, engineVars, systemVars, returned, createdBy, bodyLayer, ticks, atDetection>>

ECS_removeComponent(entityId, type) ==
    /\ \E r \in {removeComponent(Store, entityId, type)} :
           /\ SetStore(r.store)
           /\ last' = [NoCall EXCEPT !.op = "removeComponent", !.id = entityId,
                                     !.ret = r.ok,
                                     !.valid = isEntityValid(Store, entityId),
                                     !.had = Has(Store[type], entityId),
                                     !.same = (r.store = Store)]
    /\ UNCHANGED <<broadPhaseVars, componentVars, registryVars, engineVars, systemVars, returned, createdBy, bodyLayer, ticks, atDetection>>

(***************************************************************************)
(* RigidBodyEntityFactory (factories/RigidbodyEntityFactory.cpp)           *)
(***************************************************************************)
validateRigidBodyParameters(x, y, z, width, height, depth, mass) ==
    /\ ~(~isfinite(x) \/ ~isfinite(y) \/ ~isfinite(z))
    /\ ~(FLe(width, 0) \/ FLe(height, 0) \/ FLe(depth, 0))
    /\ ~(~isfinite(width) \/ ~isfinite(height) \/ ~isfinite(depth))
    /\ ~(FLt(mass, 0) \/ ~isfinite(mass))

\* As addAllComponents, but the collider insertion is forgotten.
addAllComponents_noCollider(S, entityId, transform, physics, collider, layer) ==
    LET a == addComponent(S, entityId, "transformComponents", transform)
        b == addComponent(a.store, entityId, "physicsComponents", physics)
    IN  IF ~a.ok THEN [ok |-> FALSE, store |-> a.store]
        ELSE [ok |-> b.ok, store |-> b.store]

addAllComponents(S, entityId, transform, physics, collider, layer) ==
    LET a == addComponent(S, entityId, "transformComponents", transform)
        b == addComponent(a.store, entityId, "physicsComponents", physics)
        c == addComponent(b.store, entityId, "boxColliderComponents", collider)
    IN  IF ~a.ok THEN [ok |-> FALSE, store |-> a.store]
        ELSE IF ~b.ok THEN [ok |-> FALSE, store |-> b.store]
        ELSE IF ~c.ok THEN [ok |-> FALSE, store |-> c.store]
        ELSE [ok |-> TRUE, store |-> c.store]

createRigidBodyWithComponents(S, transform, physics, collider, layer) ==
    IF \/ ~validateTransformComponent(transform)
       \/ ~validatePhysicsComponent(physics)
       \/ ~validateBoxColliderComponent(collider)
    THEN [id |-> 0, store |-> S]
    ELSE LET e == createEntity(S)
             a == addAllComponents(e.store, e.id, transform, physics, collider, layer)
         IN  IF e.id = 0 THEN [id |-> 0, store |-> e.store]
             ELSE IF ~a.ok THEN [id |-> 0, store |-> destroyEntity(a.store, e.id).store]
             ELSE [id |-> e.id, store |-> a.store]

createRigidBody(S, x, y, z, width, height, depth, mass, layer) ==
    IF ~validateRigidBodyParameters(x, y, z, width, height, depth, mass)
    THEN [id |-> 0, store |-> S]
    ELSE createRigidBodyWithComponents(S,
             createTransformAt(x, y, z),
             IF FGt(mass, 0) THEN createDynamicPhysics(mass) ELSE createStaticPhysics,
             createBoxCollider(width, height, depth), layer)

createStaticRigidBody(S, x, y, z, width, height, depth, layer) ==
    createRigidBodyWithComponents(S, createTransformAt(x, y, z), createStaticPhysics,
                                  createBoxCollider(width, height, depth), layer)

createDynamicRigidBody(S, x, y, z, width, height, depth, mass, layer) ==
    createRigidBodyWithComponents(S, createTransformAt(x, y, z),
        createDynamicPhysics(IF FLe(mass, 0) THEN 100 ELSE mass),
        createBoxCollider(width, height, depth), layer)

createKinematicRigidBody(S, x, y, z, width, height, depth, layer) ==
    createRigidBodyWithComponents(S, createTransformAt(x, y, z),
        createPhysicsComponent(0, FALSE, FALSE, 0, 0),
        createBoxCollider(width, height, depth), layer)

isValidRigidBody(S, entityId) ==
    /\ isEntityValid(S, entityId)
    /\ hasComponent(S, entityId, "transformComponents")
    /\ hasComponent(S, entityId, "physicsComponents")
    /\ hasComponent(S, entityId, "boxColliderComponents")

destroyRigidBody(S, entityId) ==
    IF ~isValidRigidBody(S, entityId)
    THEN [ok |-> FALSE, store |-> S]
    ELSE destroyEntity(S, entityId)

(***************************************************************************)
(* Inputs of the creation calls.  An invalid input has exactly one bad     *)
(* field.                                                                  *)
(***************************************************************************)
Box2 == <<200, 200, 200>>       \* half-extents 1 on every axis
PosInputs == {<<0, 0, 0>>, <<150, 0, 0>>}
MassInputs == {0, 100}

ValidCreateInputs ==
    {[pos |-> p, dim |-> Box2, mass |-> m] : p \in PosInputs, m \in MassInputs}

InvalidCreateInputs ==
    {[pos |-> p, dim |-> Box2, mass |-> 100] : p \in {<<NaN, 0, 0>>, <<0, PosInf, 0>>, <<0, 0, NegInf>>}}
    \cup {[pos |-> Zero3, dim |-> d, mass |-> 100] :
              d \in {<<0, 200, 200>>, <<200, -100, 200>>, <<200, 200, NaN>>, <<PosInf, 200, 200>>}}
    \cup {[pos |-> Zero3, dim |-> Box2, mass |-> m] : m \in {-100, NaN, PosInf}}

CreateInputs == ValidCreateInputs \cup InvalidCreateInputs

\* The claim's notion of a valid input, stated on the arguments.
ValidInput(a) ==
    /\ \A i \in Axes : isfinite(a.pos[i])
    /\ \A i \in Axes : isfinite(a.dim[i]) /\ a.dim[i] > 0
    /\ isfinite(a.mass) /\ a.mass >= 0

\* A caller-built PhysicsComponent: the default struct (invMass 1) with
\* isStatic set and a velocity; and one with an out-of-range restitution.
CallerPhysics ==
    [velocity |-> <<0, -100, 0>>, angularVelocity |-> Zero3, mass |-> 100,
     invMass |-> 100, restitution |-> 50, friction |-> 30,
     isStatic |-> TRUE, useGravity |-> TRUE]

ComponentsInputs ==
    {[transform |-> createTransformAt(0, 0, 0), physics |-> CallerPhysics,
      collider |-> createBoxCollider(200, 200, 200)],
     [transform |-> createTransformAt(0, 0, 0),
      physics |-> [CallerPhysics EXCEPT !.restitution = 150],
      collider |-> createBoxCollider(200, 200, 200)]}

\* Bookkeeping common to the creation actions.
Created(op, r, layer) ==
    /\ SetStore(r.store)
    /\ createdBy' = IF r.id # 0 THEN Put(createdBy, r.id, op) ELSE createdBy
    /\ bodyLayer' = IF r.id # 0 THEN Put(bodyLayer, r.id, layer) ELSE bodyLayer
    /\ returned' = IF r.store.nextEntityId # nextEntityId
                   THEN Append(returned, nextEntityId) ELSE returned

Factory_createStaticRigidBody(pos) ==
    /\ nextEntityId <= MaxBodies
    /\ \E r \in {createStaticRigidBody(Store, pos[1], pos[2], pos[3], 200, 200, 200, 0)} :
           /\ Created("createStaticRigidBody", r, 0)
           /\ last' = NoCall
    /\ UNCHANGED <<broadPhaseVars, componentVars, registryVars, engineVars, systemVars, ticks, atDetection>>

Factory_createDynamicRigidBody(pos, mass) ==
    /\ nextEntityId <= MaxBodies
    /\ \E r \in {createDynamicRigidBody(Store, pos[1], pos[2], pos[3], 200, 200, 200, mass, 0)} :
           /\ Created("createDynamicRigidBody", r, 0)
           /\ last' = NoCall
    /\ UNCHANGED <<broadPhaseVars, componentVars, registryVars, engineVars, systemVars, ticks, atDetection>>

Factory_createKinematicRigidBody(pos) ==
    /\ nextEntityId <= MaxBodies
    /\ \E r \in {createKinematicRigidBody(Store, pos[1], pos[2], pos[3], 200, 200, 200, 0)} :
           /\ Created("createKinematicRigidBody", r, 0)
           /\ last' = NoCall
    /\ UNCHANGED <<broadPhaseVars, componentVars, registryVars, engineVars, systemVars, ticks, atDetection>>

Factory_createRigidBodyWithComponents(c) ==
    /\ nextEntityId <= MaxBodies
    /\ \E r \in {createRigidBodyWithComponents(Store, c.transform, c.physics, c.collider, 0)} :
           /\ Created("createRigidBodyWithComponents", r, 0)
           /\ last' = NoCall
    /\ UNCHANGED <<broadPhaseVars, componentVars, registryVars, engineVars, systemVars, ticks, atDetection>>

(***************************************************************************)
(* CPUPhysicsCollisionSystem.  The operators take and return store values; *)
(* update(dt) is their composition.                                        *)
(***************************************************************************)
applyGravity(S, g, entityId, deltaTime) ==
    IF ~Has(S.physicsComponents, entityId) THEN S
    ELSE LET physics == S.physicsComponents[entityId]
         IN  IF physics.isStatic \/ FLe(physics.invMass, 0) THEN S
             ELSE [S EXCEPT !.physicsComponents[entityId].velocity =
                       [i \in Axes |-> FAdd(physics.velocity[i], FMul(g[i], deltaTime))]]

\* As integratePhysics, without the early return for a static body.
integratePhysics_noStaticSkip(S, g, entityId, deltaTime) ==
    IF ~Has(S.physicsComponents, entityId) THEN S
    ELSE LET S1 == IF S.physicsComponents[entityId].useGravity
                   THEN applyGravity(S, g, entityId, deltaTime) ELSE S
             p1 == S1.physicsComponents[entityId]
         IN  [S1 EXCEPT !.physicsComponents[entityId] =
                 [p1 EXCEPT !.velocity = [i \in Axes |-> FMul(p1.velocity[i], 99)],
                            !.angularVelocity = [i \in Axes |-> FMul(p1.angularVelocity[i], 99)]]]

integratePhysics(S, g, entityId, deltaTime) ==
    IF ~Has(S.physicsComponents, entityId) THEN S
    ELSE IF S.physicsComponents[entityId].isStatic THEN S
    ELSE LET S1 == IF S.physicsComponents[entityId].useGravity
                   THEN applyGravity(S, g, entityId, deltaTime) ELSE S
             p1 == S1.physicsComponents[entityId]
         IN  [S1 EXCEPT !.physicsComponents[entityId] =
                 [p1 EXCEPT !.velocity = [i \in Axes |-> FMul(p1.velocity[i], 99)],
                            !.angularVelocity = [i \in Axes |-> FMul(p1.angularVelocity[i], 99)]]]

updateTransformFromPhysics(S, entityId, deltaTime) ==
    IF \/ ~Has(S.transformComponents, entityId)
       \/ ~Has(S.physicsComponents, entityId) THEN S
    ELSE IF S.physicsComponents[entityId].isStatic THEN S
    ELSE LET v == S.physicsComponents[entityId].velocity
         IN  [S EXCEPT !.transformComponents[entityId].position =
                 [i \in Axes |-> FAdd(@[i], FMul(v[i], deltaTime))]]

calculateAABB(transform, collider) ==
    LET halfWidth == FMul(FMul(collider.width, transform.scale[1]), 50)
        halfHeight == FMul(FMul(collider.height, transform.scale[2]), 50)
        halfDepth == FMul(FMul(collider.depth, transform.scale[3]), 50)
    IN  [minX |-> FSub(transform.position[1], halfWidth),
         maxX |-> FAdd(transform.position[1], halfWidth),
         minY |-> FSub(transform.position[2], halfHeight),
         maxY |-> FAdd(transform.position[2], halfHeight),
         minZ |-> FSub(transform.position[3], halfDepth),
         maxZ |-> FAdd(transform.position[3], halfDepth)]

aabbOverlap(a, b) ==
    /\ FLe(a.minX, b.maxX) /\ FGe(a.maxX, b.minX)
    /\ FLe(a.minY, b.maxY) /\ FGe(a.maxY, b.minY)
    /\ FLe(a.minZ, b.maxZ) /\ FGe(a.maxZ, b.minZ)

\* The index pairs (i, j), i < j, in the order of the two nested loops.
RECURSIVE IndexPairsFrom(_, _, _)
IndexPairsFrom(i, j, n) ==
    IF i > n THEN <<>>
    ELSE IF j > n THEN IndexPairsFrom(i + 1, i + 2, n)
    ELSE <<(<<i, j>>)>> \o IndexPairsFrom(i, j + 1, n)
IndexPairs(n) == IndexPairsFrom(1, 2, n)

broadPhaseDetection(S, ents) ==
    LET all == IndexPairs(Len(ents))
        Keep(pr) ==
            LET entityA == ents[pr[1]]
                entityB == ents[pr[2]]
            IN  /\ Has(S.transformComponents, entityA) /\ Has(S.transformComponents, entityB)
                /\ Has(S.boxColliderComponents, entityA) /\ Has(S.boxColliderComponents, entityB)
                /\ aabbOverlap(calculateAABB(S.transformComponents[entityA], S.boxColliderComponents[entityA]),
                               calculateAABB(S.transformComponents[entityB], S.boxColliderComponents[entityB]))
        kept == SelectSeq(all, Keep)
    IN  [k \in 1..Len(kept) |-> <<ents[kept[k][1]], ents[kept[k][2]]>>]

\* CPUPhysicsEngine::canLayersInteract on a layer table L.
Engine_canLayersInteract(L, layer1, layer2) ==
    /\ Has(L, layer1)
    /\ layer2 \in Range(L[layer1].interactionLayers)

\* cb is the callback: "unset" for an empty std::function, "engine" for the
\* lambda CPUPhysicsEngine::initialize installs.
canEntitiesCollide(cb, L, entityA, entityB) ==
    IF cb # "unset" THEN Engine_canLayersInteract(L, 0, 0) ELSE TRUE

checkBoxBoxCollision(transformA, colliderA, transformB, colliderB, collision) ==
    LET halfExtentsA == <<FMul(FMul(colliderA.width, transformA.scale[1]), 50),
                          FMul(FMul(colliderA.height, transformA.scale[2]), 50),
                          FMul(FMul(colliderA.depth, transformA.scale[3]), 50)>>
        halfExtentsB == <<FMul(FMul(colliderB.width, transformB.scale[1]), 50),
                          FMul(FMul(colliderB.height, transformB.scale[2]), 50),
                          FMul(FMul(colliderB.depth, transformB.scale[3]), 50)>>
        distance == [i \in Axes |-> FAbs(FSub(transformA.position[i], transformB.position[i]))]
        totalExtent == [i \in Axes |-> FAdd(halfExtentsA[i], halfExtentsB[i])]
        colliding == \A i \in Axes : ~FGe(distance[i], totalExtent[i])
        penetration == [i \in Axes |-> FSub(totalExtent[i], distance[i])]
        m2 == IF FLt(penetration[2], penetration[1]) THEN 2 ELSE 1
        minAxis == IF FLt(penetration[3], penetration[m2]) THEN 3 ELSE m2
    IN  IF ~colliding THEN [hit |-> FALSE, collision |-> collision]
        ELSE [hit |-> TRUE,
              collision |-> [collision EXCEPT
                  !.penetrationDepth = penetration[minAxis],
                  !.normal = [i \in Axes |->
                      IF i = minAxis
                      THEN (IF FGt(transformA.position[minAxis], transformB.position[minAxis])
                            THEN 100 ELSE -100)
                      ELSE 0],
                  !.contactPoint = [i \in Axes |->
                      FMul(FAdd(transformA.position[i], transformB.position[i]), 50)]]]

NoCollision == [entityA |-> 0, entityB |-> 0, penetrationDepth |-> 0,
                normal |-> Zero3, contactPoint |-> Zero3]

narrowPhaseDetection(S, entityA, entityB) ==
    IF \/ ~Has(S.transformComponents, entityA) \/ ~Has(S.transformComponents, entityB)
       \/ ~Has(S.boxColliderComponents, entityA) \/ ~Has(S.boxColliderComponents, entityB)
    THEN [hit |-> FALSE, collision |-> NoCollision]
    ELSE IF \/ ~S.boxColliderComponents[entityA].enabled
            \/ ~S.boxColliderComponents[entityB].enabled
    THEN [hit |-> FALSE, collision |-> NoCollision]
    ELSE checkBoxBoxCollision(S.transformComponents[entityA], S.boxColliderComponents[entityA],
                              S.transformComponents[entityB], S.boxColliderComponents[entityB],
                              [NoCollision EXCEPT !.entityA = entityA, !.entityB = entityB])

\* broadPhaseEnabled keeps its default, true.
detectCollisions(S, cb, L, ents) ==
    LET candidatePairs == broadPhaseDetection(S, ents)
        Hit(pr) == /\ canEntitiesCollide(cb, L, pr[1], pr[2])
                   /\ narrowPhaseDetection(S, pr[1], pr[2]).hit
        hits == SelectSeq(candidatePairs, Hit)
    IN  [k \in 1..Len(hits) |-> narrowPhaseDetection(S, hits[k][1], hits[k][2]).collision]

separateEntities(S, collision) ==
    IF \/ ~Has(S.transformComponents, collision.entityA)
       \/ ~Has(S.transformComponents, collision.entityB)
       \/ ~Has(S.physicsComponents, collision.entityA)
       \/ ~Has(S.physicsComponents, collision.entityB)
    THEN S
    ELSE LET physicsA == S.physicsComponents[collision.entityA]
             physicsB == S.physicsComponents[collision.entityB]
             totalInvMass == FAdd(physicsA.invMass, physicsB.invMass)
             separationA == FMul(FMul(FDiv(physicsA.invMass, totalInvMass),
                                      collision.penetrationDepth), 50)
             separationB == FMul(FMul(FDiv(physicsB.invMass, totalInvMass),
                                      collision.penetrationDepth), 50)
             SA == IF ~physicsA.isStatic
                   THEN [S EXCEPT !.transformComponents[collision.entityA].position =
                            [i \in Axes |-> FAdd(@[i], FMul(collision.normal[i], separationA))]]
                   ELSE S
         IN  IF FLe(totalInvMass, 0) THEN S
             ELSE IF ~physicsB.isStatic
             THEN [SA EXCEPT !.transformComponents[collision.entityB].position =
                            [i \in Axes |-> FSub(@[i], FMul(collision.normal[i], separationB))]]
             ELSE SA

applyCollisionImpulse(S, collision) ==
    IF \/ ~Has(S.physicsComponents, collision.entityA)
       \/ ~Has(S.physicsComponents, collision.entityB)
    THEN S
    ELSE LET physicsA == S.physicsComponents[collision.entityA]
             physicsB == S.physicsComponents[collision.entityB]
             relativeVelocity == [i \in Axes |-> FSub(physicsA.velocity[i], physicsB.velocity[i])]
             velAlongNormal ==
                 FAdd(FAdd(FAdd(0, FMul(relativeVelocity[1], collision.normal[1])),
                           FMul(relativeVelocity[2], collision.normal[2])),
                      FMul(relativeVelocity[3], collision.normal[3]))
             restitution == FMin(physicsA.restitution, physicsB.restitution)
             impulseMagnitude ==
                 FDiv(FMul(FNeg(FAdd(100, restitution)), velAlongNormal),
                      FAdd(physicsA.invMass, physicsB.invMass))
             SA == IF ~physicsA.isStatic
                   THEN [S EXCEPT !.physicsComponents[collision.entityA].velocity =
                            [i \in Axes |-> FAdd(@[i],
                                FMul(FMul(impulseMagnitude, physicsA.invMass), collision.normal[i]))]]
                   ELSE S
         IN  IF FGt(velAlongNormal, 0) THEN S
             ELSE IF ~physicsB.isStatic
             THEN [SA EXCEPT !.physicsComponents[collision.entityB].velocity =
                            [i \in Axes |-> FSub(@[i],
                                FMul(FMul(impulseMagnitude, physicsB.invMass), collision.normal[i]))]]
             ELSE SA

resolveCollision(S, collision) ==
    applyCollisionImpulse(separateEntities(S, collision), collision)

\* collisionResponseEnabled keeps its default, true.
RECURSIVE resolveCollisions(_, _)
resolveCollisions(S, collisions) ==
    IF collisions = <<>> THEN S
    ELSE resolveCollisions(resolveCollision(S, Head(collisions)), Tail(collisions))

RECURSIVE IntegrateAll(_, _, _, _)
IntegrateAll(S, g, ents, deltaTime) ==
    IF ents = <<>> THEN S
    ELSE IntegrateAll(integratePhysics(S, g, Head(ents), deltaTime), g, Tail(ents), deltaTime)

RECURSIVE UpdateTransformAll(_, _, _)
UpdateTransformAll(S, ents, deltaTime) ==
    IF ents = <<>> THEN S
    ELSE UpdateTransformAll(updateTransformFromPhysics(S, Head(ents), deltaTime),
                            Tail(ents), deltaTime)

\* The orders in which an unordered_map may enumerate a key set.
Orders(keys) ==
    {o \in [1..Cardinality(keys) -> keys] : \A i, j \in DOMAIN o : i # j => o[i] # o[j]}

(***************************************************************************)
(* CPUPhysicsEngine (physics_engine/cpu_physics_engine)                    *)
(***************************************************************************)
\* createLayer on a layer table: the new layer has no interactions.
Engine_createLayer(L, nextId, name) ==
    [id |-> nextId,
     layers |-> Put(L, nextId, [id |-> nextId, name |-> name, interactionLayers |-> <<>>]),
     nextLayerId |-> nextId + 1]

InitEngine ==
    LET r == Engine_createLayer(EmptyTable, 1, DefaultName)
    IN  /\ layers = r.layers
        /\ nextLayerId = r.nextLayerId
        /\ legacyRigidBodies = EmptyTable
        /\ canLayersInteract = "engine"
        /\ gravity = DefaultGravity
        /\ activeCollisions = <<>>
        /\ lastCollisionCount = 0

Without(seq, v) == SelectSeq(seq, LAMBDA x : x # v)

Engine_setLayerInteraction(L, layer1, layer2, canInteract) ==
    IF ~Has(L, layer1) \/ ~Has(L, layer2) THEN [ok |-> FALSE, layers |-> L]
    ELSE IF canInteract
    THEN LET L1 == IF layer2 \notin Range(L[layer1].interactionLayers)
                   THEN [L EXCEPT ![layer1].interactionLayers = Append(@, layer2)] ELSE L
             L2 == IF layer1 # layer2 /\ layer1 \notin Range(L1[layer2].interactionLayers)
                   THEN [L1 EXCEPT ![layer2].interactionLayers = Append(@, layer1)] ELSE L1
         IN  [ok |-> TRUE, layers |-> L2]
    ELSE LET L1 == [L EXCEPT ![layer1].interactionLayers = Without(@, layer2)]
             L2 == IF layer1 # layer2
                   THEN [L1 EXCEPT ![layer2].interactionLayers = Without(@, layer1)] ELSE L1
         IN  [ok |-> TRUE, layers |-> L2]

updateLegacyRigidBodyData(W, S, entityId) ==
    IF ~Has(W, entityId) THEN W
    ELSE IF /\ Has(S.transformComponents, entityId)
            /\ Has(S.physicsComponents, entityId)
            /\ Has(S.boxColliderComponents, entityId)
    THEN [W EXCEPT ![entityId].transform = S.transformComponents[entityId],
                   ![entityId].physics = S.physicsComponents[entityId],
                   ![entityId].collider = S.boxColliderComponents[entityId]]
    ELSE W

\* The wrapper starts as a default RigidBodyComponent with layer 0.
createLegacyRigidBodyWrapper(W, S, entityId) ==
    updateLegacyRigidBodyData(
        Put(W, entityId,
            [entityId |-> entityId, hasCollider |-> TRUE, layer |-> 0,
             transform |-> createTransformComponent(0, 0, 0, 100, 100, 100),
             physics |-> [velocity |-> Zero3, angularVelocity |-> Zero3, mass |-> 100,
                          invMass |-> 100, restitution |-> 50, friction |-> 30,
                          isStatic |-> FALSE, useGravity |-> TRUE],
             collider |-> createBoxColliderComponent(100, 100, 100, TRUE)]),
        S, entityId)

Engine_createRigidBody(a, layer) ==
    /\ nextEntityId <= MaxBodies
    /\ \E r \in {createRigidBody(Store, a.pos[1], a.pos[2], a.pos[3],
                                a.dim[1], a.dim[2], a.dim[3], a.mass, layer)} :
           /\ Created("createRigidBody", r, layer)
           /\ legacyRigidBodies' = IF r.id # 0
                                   THEN createLegacyRigidBodyWrapper(legacyRigidBodies, r.store, r.id)
                                   ELSE legacyRigidBodies
    /\ last' = NoCall
    /\ UNCHANGED <<broadPhaseVars, componentVars, registryVars, layers, nextLayerId, canLayersInteract, gravity, Engine_maxRigidBodies, activeCollisions,
                   lastCollisionCount, systemVars, ticks, atDetection>>

Engine_removeRigidBody(entityId) ==
    /\ \E r \in {destroyRigidBody(Store, entityId)} :
           /\ SetStore(r.store)
           /\ legacyRigidBodies' = Erase(legacyRigidBodies, entityId)
    /\ last' = NoCall
    /\ UNCHANGED <<broadPhaseVars, componentVars, registryVars, layers, nextLayerId, canLayersInteract, gravity, Engine_maxRigidBodies, activeCollisions,
                   lastCollisionCount, systemVars, returned, createdBy, bodyLayer,
                   ticks, atDetection>>

DtInputs == {10}    \* the step explored, 0.1 s

\* CPUPhysicsCollisionSystem::update(deltaTime) on the program's state, for
\* one order in which transformComponents is enumerated: the entities with
\* all three components are integrated, contacts are detected and resolved,
\* then the transforms are advanced.  atDetection keeps what detection read
\* and the candidate pairs of the broad phase.
update(deltaTime, order) ==
    LET HasAll(entityId) == /\ Has(transformComponents, entityId)
                            /\ Has(physicsComponents, entityId)
                            /\ Has(boxColliderComponents, entityId)
    IN  \E physicsEntities \in {SelectSeq(order, HasAll)} :
        \E S1 \in {IntegrateAll(Store, gravity, physicsEntities, deltaTime)} :
        \E collisions \in {IF physicsEntities # <<>>
                           THEN detectCollisions(S1, canLayersInteract, layers, physicsEntities)
                           ELSE <<>>} :
        \E S2 \in {IF collisions # <<>> THEN resolveCollisions(S1, collisions) ELSE S1} :
        \E S3 \in {UpdateTransformAll(S2, physicsEntities, deltaTime)} :
            /\ SetStore(S3)
            /\ activeCollisions' = collisions
            /\ lastCollisionCount' = Len(collisions)
            /\ atDetection' = [store |-> S1, layers |-> layers, cb |-> canLayersInteract,
                               candidates |-> IF physicsEntities # <<>>
                                              THEN broadPhaseDetection(S1, physicsEntities)
                                              ELSE <<>>]
            /\ ticks' = ticks + 1
            /\ last' = NoCall
            /\ UNCHANGED <<broadPhaseVars, componentVars, registryVars, layers, nextLayerId, canLayersInteract, gravity, Engine_maxRigidBodies, systemVars,
                           returned, createdBy, bodyLayer>>

\* CPUPhysicsCollisionSystem::update called directly.
CollisionSystem_update(deltaTime) ==
    /\ ticks < MaxTicks
    /\ \E order \in Orders(DOMAIN transformComponents) : update(deltaTime, order)
    /\ UNCHANGED legacyRigidBodies

\* CPUPhysicsEngine::updatePhysics: the collision system's update, then
\* every legacy wrapper is refreshed from the store.
Engine_updatePhysics(deltaTime) ==
    /\ ticks < MaxTicks
    /\ \E order \in Orders(DOMAIN transformComponents) :
          /\ update(deltaTime, order)
          /\ LET S == [entities |-> entities', nextEntityId |-> nextEntityId',
                       transformComponents |-> transformComponents',
                       physicsComponents |-> physicsComponents',
                       boxColliderComponents |-> boxColliderComponents']
             IN  legacyRigidBodies' =
                     [id \in DOMAIN legacyRigidBodies |->
                         updateLegacyRigidBodyData(legacyRigidBodies, S, id)[id]]

LayerPairInputs == {<<1, 1>>, <<0, 0>>}

Engine_setLayerInteractionCall(layer1, layer2, canInteract) ==
    /\ \E r \in {Engine_setLayerInteraction(layers, layer1, layer2, canInteract)} :
           /\ layers' = r.layers
           /\ revoked' = IF r.ok
                         THEN [revoked EXCEPT !.engine = Revoked(@, layer1, layer2, canInteract)]
                         ELSE revoked
    /\ last' = NoCall
    /\ UNCHANGED <<broadPhaseVars, componentVars, layerWorker, layerSystem, assigned, storeVars, nextLayerId, legacyRigidBodies, canLayersInteract, gravity, Engine_maxRigidBodies,
                   activeCollisions, lastCollisionCount, systemVars, returned, createdBy,
                   bodyLayer, ticks, atDetection>>

\* getCollisionSystem()->setLayerInteractionCallback(cb): an empty
\* std::function, or the engine's lambda again.
CallbackInputs == {"unset", "engine"}

setLayerInteractionCallback(canLayersInteractCallback) ==
    /\ canLayersInteract' = canLayersInteractCallback
    /\ last' = NoCall
    /\ UNCHANGED <<broadPhaseVars, componentVars, registryVars, storeVars, layers, nextLayerId, legacyRigidBodies, gravity, Engine_maxRigidBodies,
                   activeCollisions, lastCollisionCount, systemVars, returned, createdBy,
                   bodyLayer, ticks, atDetection>>

\* CPUPhysicsSystem is not constructed by the engine.
InitSystemIdle ==
    /\ rigidBodies = EmptyTable
    /\ System_nextEntityId = 1
    /\ maxRigidBodies = 512
    /\ System_layers = EmptyTable
    /\ System_nextLayerId = 1
    /\ System_gravity = DefaultGravity
    /\ System_resolved = <<>>

\* A constructed CPUPhysicsCollisionSystem outside an engine: no callback,
\* no layer table.
InitCollisionSystem ==
    /\ Engine_maxRigidBodies = 512
    /\ layers = EmptyTable
    /\ nextLayerId = 1
    /\ legacyRigidBodies = EmptyTable
    /\ canLayersInteract = "unset"
    /\ gravity = DefaultGravity
    /\ activeCollisions = <<>>
    /\ lastCollisionCount = 0

(***************************************************************************)
(* The engine after initialize().                                          *)
(***************************************************************************)
FactoryCreateInputs ==
    {[pos |-> <<0, 0, 0>>, dim |-> Box2, mass |-> 0],
     [pos |-> <<150, 0, 0>>, dim |-> Box2, mass |-> 100],
     [pos |-> <<0, 0, 0>>, dim |-> <<200, 0, 200>>, mass |-> 100]}

\* After initialize(maxRigidBodies): a capacity of one body, or the default.
Init ==
    /\ InitStore /\ InitEngine /\ InitSystemIdle /\ InitLayerRegistries /\ InitBroadPhaseIdle /\ InitComponentsIdle /\ InitHistory
    /\ Engine_maxRigidBodies \in {1, 512}

Next ==
    \/ \E a \in FactoryCreateInputs : Engine_createRigidBody(a, 1)
    \/ \E entityId \in 0..MaxBodies : Engine_removeRigidBody(entityId)
    \/ \E deltaTime \in DtInputs : Engine_updatePhysics(deltaTime)
    \/ \E pr \in LayerPairInputs, b \in BOOLEAN : Engine_setLayerInteractionCall(pr[1], pr[2], b)
    \/ \E cb \in CallbackInputs : setLayerInteractionCallback(cb)

Spec == Init /\ [][Next]_vars

(***************************************************************************)
(* The factory and the collision system on a store, without an engine.     *)
(***************************************************************************)
Factory_createRigidBody(a, layer) ==
    /\ nextEntityId <= MaxBodies
    /\ \E r \in {createRigidBody(Store, a.pos[1], a.pos[2], a.pos[3],
                                a.dim[1], a.dim[2], a.dim[3], a.mass, layer)} :
           /\ Created("createRigidBody", r, layer)
    /\ last' = NoCall
    /\ UNCHANGED <<broadPhaseVars, componentVars, registryVars, engineVars, systemVars, ticks, atDetection>>

Factory_destroyRigidBody(entityId) ==
    /\ \E r \in {destroyRigidBody(Store, entityId)} :
           SetStore(r.store)
    /\ last' = NoCall
    /\ UNCHANGED <<broadPhaseVars, componentVars, registryVars, engineVars, systemVars, returned, createdBy, bodyLayer, ticks, atDetection>>

InitFactory == InitStore /\ InitCollisionSystem /\ InitSystemIdle /\ InitLayerRegistries /\ InitBroadPhaseIdle /\ InitComponentsIdle /\ InitHistory

NextFactory ==
    \/ \E a \in FactoryCreateInputs : Factory_createRigidBody(a, 0)
    \/ Factory_createStaticRigidBody(<<0, 0, 0>>)
    \/ Factory_createDynamicRigidBody(<<150, 0, 0>>, 0)
    \/ Factory_createKinematicRigidBody(<<150, 0, 0>>)
    \/ \E c \in ComponentsInputs : Factory_createRigidBodyWithComponents(c)
    \/ \E entityId \in 0..MaxBodies : Factory_destroyRigidBody(entityId)
    \/ \E deltaTime \in DtInputs : CollisionSystem_update(deltaTime)

SpecFactory == InitFactory /\ [][NextFactory]_vars

(***************************************************************************)
(* The component store on its own.                                         *)
(***************************************************************************)
NextStore ==
    \/ ECS_createEntity
    \/ \E entityId \in EntityIdInputs : ECS_destroyEntity(entityId)
    \/ \E entityId \in EntityIdInputs, type \in ComponentTypes :
          \E component \in ComponentInputs(type) : ECS_addComponent(entityId, type, component)
    \/ \E entityId \in EntityIdInputs, type \in ComponentTypes : ECS_removeComponent(entityId, type)

SpecStore == InitFactory /\ [][NextStore]_vars

(***************************************************************************)
(* RigidBodyEntityFactory of factories/entities, on the same store and     *)
(* component factory.                                                      *)
(***************************************************************************)
Entities_validateRigidBodyParameters(x, y, z, width, height, depth, mass) ==
    FGt(width, 0) /\ FGt(height, 0) /\ FGt(depth, 0) /\ FGe(mass, 0)

\* The three addComponent results are discarded.
Entities_addAllComponents(S, entityId, transform, physics, collider, layer) ==
    LET S1 == addComponent(S, entityId, "transformComponents", transform).store
        S2 == addComponent(S1, entityId, "physicsComponents", physics).store
        S3 == addComponent(S2, entityId, "boxColliderComponents", collider).store
    IN  [ok |-> TRUE, store |-> S3]

Entities_createRigidBodyWithComponents(S, transform, physics, collider, layer) ==
    LET e == createEntity(S)
        r == Entities_addAllComponents(e.store, e.id, transform, physics, collider, layer)
    IN  IF ~r.ok THEN [id |-> 0, store |-> destroyEntity(r.store, e.id).store]
        ELSE [id |-> e.id, store |-> r.store]

Entities_createRigidBody(S, x, y, z, width, height, depth, mass, layer) ==
    IF ~Entities_validateRigidBodyParameters(x, y, z, width, height, depth, mass)
    THEN [id |-> 0, store |-> S]
    ELSE Entities_createRigidBodyWithComponents(S, createTransformComponent(x, y, z, 100, 100, 100),
                             createDynamicPhysics(mass),
                             createBoxCollider(width, height, depth), layer)

Entities_createStaticRigidBody(S, x, y, z, width, height, depth, layer) ==
    Entities_createRigidBodyWithComponents(S, createTransformComponent(x, y, z, 100, 100, 100),
                        createStaticPhysics,
                        createBoxCollider(width, height, depth), layer)

Entities_destroyRigidBody(S, entityId) ==
    IF ~isEntityValid(S, entityId) THEN [ok |-> FALSE, store |-> S]
    ELSE LET S1 == removeComponent(S, entityId, "transformComponents").store
             S2 == removeComponent(S1, entityId, "physicsComponents").store
             S3 == removeComponent(S2, entityId, "boxColliderComponents").store
         IN  destroyEntity(S3, entityId)

Entities_createRigidBodyCall(a, layer) ==
    /\ nextEntityId <= MaxBodies
    /\ \E r \in {Entities_createRigidBody(Store, a.pos[1], a.pos[2], a.pos[3],
                                         a.dim[1], a.dim[2], a.dim[3], a.mass, layer)} :
           Created("createRigidBody", r, layer)
    /\ last' = NoCall
    /\ UNCHANGED <<broadPhaseVars, componentVars, registryVars, engineVars, systemVars, ticks, atDetection>>

Entities_createStaticRigidBodyCall(pos) ==
    /\ nextEntityId <= MaxBodies
    /\ \E r \in {Entities_createStaticRigidBody(Store, pos[1], pos[2], pos[3], 200, 200, 200, 0)} :
           Created("createStaticRigidBody", r, 0)
    /\ last' = NoCall
    /\ UNCHANGED <<broadPhaseVars, componentVars, registryVars, engineVars, systemVars, ticks, atDetection>>

Entities_destroyRigidBodyCall(entityId) ==
    /\ \E r \in {Entities_destroyRigidBody(Store, entityId)} :
           SetStore(r.store)
    /\ last' = NoCall
    /\ UNCHANGED <<broadPhaseVars, componentVars, registryVars, engineVars, systemVars, returned, createdBy, bodyLayer, ticks, atDetection>>

NextFactoryEntities ==
    \/ \E a \in CreateInputs : Entities_createRigidBodyCall(a, 0)
    \/ \E pos \in PosInputs : Entities_createStaticRigidBodyCall(pos)
    \/ \E entityId \in 0..MaxBodies : Entities_destroyRigidBodyCall(entityId)

SpecFactoryEntities == InitFactory /\ [][NextFactoryEntities]_vars

(***************************************************************************)
(* CPUPhysicsSystem (cpu_physics/CPUPhysicsSystem.cpp): bodies are whole   *)
(* RigidBodyComponent records in one table.                                *)
(***************************************************************************)
System_createRigidBody(R, nextId, maxBodies, x, y, z, width, height, depth, mass, layer) ==
    IF Cardinality(DOMAIN R) >= maxBodies
    THEN [id |-> 0, rigidBodies |-> R, nextEntityId |-> nextId]
    ELSE LET isStatic == FLe(mass, 0)
             body == [entityId |-> nextId,
                      transform |-> [position |-> <<x, y, z>>,
                                     rotation |-> <<100, 0, 0, 0>>,
                                     scale |-> <<100, 100, 100>>],
                      physics |-> [velocity |-> Zero3, angularVelocity |-> Zero3,
                                   mass |-> mass,
                                   invMass |-> IF FGt(mass, 0) THEN FDiv(100, mass) ELSE 0,
                                   restitution |-> 50, friction |-> 30,
                                   isStatic |-> isStatic, useGravity |-> ~isStatic],
                      collider |-> [width |-> width, height |-> height, depth |-> depth,
                                    enabled |-> TRUE],
                      layer |-> layer, hasCollider |-> TRUE]
         IN  [id |-> nextId, rigidBodies |-> Put(R, nextId, body), nextEntityId |-> nextId + 1]

System_removeRigidBody(R, entityId) ==
    IF ~Has(R, entityId) THEN [ok |-> FALSE, rigidBodies |-> R]
    ELSE [ok |-> TRUE, rigidBodies |-> Erase(R, entityId)]

\* createLayer never looks at the names already present.
System_createLayer(L, nextId, name) ==
    [id |-> nextId,
     layers |-> Put(L, nextId, [id |-> nextId, name |-> name,
                                interactionLayers |-> <<nextId>>]),
     nextLayerId |-> nextId + 1]

System_setLayerInteraction(L, layer1, layer2, canInteract) ==
    IF ~Has(L, layer1) \/ ~Has(L, layer2) THEN [ok |-> FALSE, layers |-> L]
    ELSE IF canInteract
    THEN LET L1 == IF layer2 \notin Range(L[layer1].interactionLayers)
                   THEN [L EXCEPT ![layer1].interactionLayers = Append(@, layer2)] ELSE L
             L2 == IF layer1 \notin Range(L1[layer2].interactionLayers)
                   THEN [L1 EXCEPT ![layer2].interactionLayers = Append(@, layer1)] ELSE L1
         IN  [ok |-> TRUE, layers |-> L2]
    ELSE LET L1 == [L EXCEPT ![layer1].interactionLayers = Without(@, layer2)]
             L2 == [L1 EXCEPT ![layer2].interactionLayers = Without(@, layer1)]
         IN  [ok |-> TRUE, layers |-> L2]

System_canLayersInteract(L, layer1, layer2) ==
    /\ Has(L, layer1)
    /\ layer2 \in Range(L[layer1].interactionLayers)

\* velocity *= 0.999f
System_damping(v) == IF isfinite(v) THEN TDiv(v * 999, 1000) ELSE v

System_integratePhysics(body, g, deltaTime) ==
    IF body.physics.isStatic THEN body
    ELSE LET v == IF body.physics.useGravity /\ FGt(body.physics.invMass, 0)
                  THEN [i \in Axes |-> FAdd(body.physics.velocity[i], FMul(g[i], deltaTime))]
                  ELSE body.physics.velocity
         IN  [body EXCEPT
                 !.transform.position = [i \in Axes |-> FAdd(@[i], FMul(v[i], deltaTime))],
                 !.physics.velocity = [i \in Axes |-> System_damping(v[i])]]

\* The inclusive AABB test of CPUPhysicsSystem (the scale is not used).
System_checkBoxBoxCollision(body1, body2) ==
    LET half1 == <<FMul(body1.collider.width, 50), FMul(body1.collider.height, 50),
                   FMul(body1.collider.depth, 50)>>
        half2 == <<FMul(body2.collider.width, 50), FMul(body2.collider.height, 50),
                   FMul(body2.collider.depth, 50)>>
    IN  \A i \in Axes :
            /\ FLe(FSub(body1.transform.position[i], half1[i]),
                   FAdd(body2.transform.position[i], half2[i]))
            /\ FGe(FAdd(body1.transform.position[i], half1[i]),
                   FSub(body2.transform.position[i], half2[i]))

\* The penetration on each axis as resolveCollision computes it.
System_penetration(body1, body2) ==
    LET size1 == <<body1.collider.width, body1.collider.height, body1.collider.depth>>
        size2 == <<body2.collider.width, body2.collider.height, body2.collider.depth>>
    IN  [i \in Axes |->
            FSub(FMul(FAdd(size1[i], size2[i]), 50),
                 FAbs(FSub(body1.transform.position[i], body2.transform.position[i])))]

\* resolveCollision(body1, body2): the two bodies afterwards, and the
\* separation it worked with.
System_resolveCollision(body1, body2) ==
    LET d == [i \in Axes |-> FSub(body1.transform.position[i], body2.transform.position[i])]
        penetration == System_penetration(body1, body2)
        minPenetration == FMin(FMin(penetration[1], penetration[2]), penetration[3])
        axis == IF ~IsNaN(minPenetration) /\ minPenetration = penetration[1] THEN 1
                ELSE IF ~IsNaN(minPenetration) /\ minPenetration = penetration[2] THEN 2
                ELSE 3
        normal == [i \in Axes |-> IF i = axis THEN (IF FGt(d[i], 0) THEN 100 ELSE -100) ELSE 0]
        totalInvMass == FAdd(body1.physics.invMass, body2.physics.invMass)
        ratio1 == FDiv(body1.physics.invMass, totalInvMass)
        ratio2 == FDiv(body2.physics.invMass, totalInvMass)
        moved1 == [body1 EXCEPT !.transform.position =
                      [i \in Axes |-> FAdd(@[i], FMul(FMul(normal[i], minPenetration), ratio1))]]
        moved2 == [body2 EXCEPT !.transform.position =
                      [i \in Axes |-> FSub(@[i], FMul(FMul(normal[i], minPenetration), ratio2))]]
        restitution == FMin(body1.physics.restitution, body2.physics.restitution)
        relativeVel == [i \in Axes |-> FSub(body1.physics.velocity[i], body2.physics.velocity[i])]
        contactVel == FAdd(FAdd(FMul(relativeVel[1], normal[1]), FMul(relativeVel[2], normal[2])),
                           FMul(relativeVel[3], normal[3]))
        impulse == FDiv(FMul(FNeg(FAdd(100, restitution)), contactVel), totalInvMass)
    IN  IF ~FGt(totalInvMass, 0)
        THEN [body1 |-> body1, body2 |-> body2, separation |-> minPenetration]
        ELSE IF FGt(contactVel, 0)
        THEN [body1 |-> moved1, body2 |-> moved2, separation |-> minPenetration]
        ELSE [body1 |-> [moved1 EXCEPT !.physics.velocity =
                            [i \in Axes |-> FAdd(@[i], FMul(FMul(impulse, normal[i]),
                                                            body1.physics.invMass))]],
              body2 |-> [moved2 EXCEPT !.physics.velocity =
                            [i \in Axes |-> FSub(@[i], FMul(FMul(impulse, normal[i]),
                                                            body2.physics.invMass))]],
              separation |-> minPenetration]

\* detectAndResolveCollisions over the pairs (it1, it2) of one enumeration
\* order of rigidBodies; resolved collects the pairs given to
\* resolveCollision with the separation used.
RECURSIVE System_detectAndResolveCollisions(_, _, _, _, _)
System_detectAndResolveCollisions(R, L, order, pairs, resolved) ==
    IF pairs = <<>> THEN [rigidBodies |-> R, resolved |-> resolved]
    ELSE LET id1 == order[Head(pairs)[1]]
             id2 == order[Head(pairs)[2]]
             body1 == R[id1]
             body2 == R[id2]
         IN  IF \/ ~System_canLayersInteract(L, body1.layer, body2.layer)
                \/ ~body1.hasCollider \/ ~body2.hasCollider
                \/ ~body1.collider.enabled \/ ~body2.collider.enabled
                \/ ~System_checkBoxBoxCollision(body1, body2)
             THEN System_detectAndResolveCollisions(R, L, order, Tail(pairs), resolved)
             ELSE CHOOSE next \in
                     {System_detectAndResolveCollisions(
                          Put(Put(R, id1, r.body1), id2, r.body2), L, order, Tail(pairs),
                          Append(resolved, [entityA |-> id1, entityB |-> id2,
                                            penetrationDepth |-> r.separation]))
                      : r \in {System_resolveCollision(body1, body2)}} : TRUE

System_updatePhysics(R, L, g, deltaTime, order) ==
    System_detectAndResolveCollisions(
        [id \in DOMAIN R |-> System_integratePhysics(R[id], g, deltaTime)],
        L, order, IndexPairs(Len(order)), <<>>)

System_createRigidBodyCall(a, layer) ==
    /\ System_nextEntityId <= MaxBodies
    /\ \E r \in {System_createRigidBody(rigidBodies, System_nextEntityId, maxRigidBodies,
                                       a.pos[1], a.pos[2], a.pos[3],
                                       a.dim[1], a.dim[2], a.dim[3], a.mass, layer)} :
           /\ rigidBodies' = r.rigidBodies
           /\ System_nextEntityId' = r.nextEntityId
           /\ last' = [NoCall EXCEPT !.op = "createRigidBody", !.rid = r.id,
                                     !.valid = ValidInput(a),
                                     !.same = (r.rigidBodies = rigidBodies)]
    /\ UNCHANGED <<broadPhaseVars, componentVars, registryVars, storeVars, engineVars, maxRigidBodies, systemLayerVars, System_resolved,
                   returned, createdBy, bodyLayer, ticks, atDetection>>

System_removeRigidBodyCall(entityId) ==
    /\ \E r \in {System_removeRigidBody(rigidBodies, entityId)} :
           /\ rigidBodies' = r.rigidBodies
           /\ last' = [NoCall EXCEPT !.op = "removeRigidBody", !.id = entityId,
                                     !.ret = r.ok,
                                     !.same = (r.rigidBodies = rigidBodies)]
    /\ UNCHANGED <<broadPhaseVars, componentVars, registryVars, storeVars, engineVars, System_nextEntityId, maxRigidBodies,
                   systemLayerVars, System_resolved, returned,
                   createdBy, bodyLayer, ticks, atDetection>>

System_updatePhysicsCall(deltaTime) ==
    /\ ticks < MaxTicks
    /\ \E order \in Orders(DOMAIN rigidBodies) :
       \E r \in {System_updatePhysics(rigidBodies, System_layers, System_gravity,
                                      deltaTime, order)} :
           /\ rigidBodies' = r.rigidBodies
           /\ System_resolved' = r.resolved
    /\ ticks' = ticks + 1
    /\ last' = NoCall
    /\ UNCHANGED <<broadPhaseVars, componentVars, registryVars, storeVars, engineVars, System_nextEntityId, maxRigidBodies,
                   systemLayerVars, returned, createdBy, bodyLayer, atDetection>>

\* After initialize(maxRigidBodies), which registers the layer "Default":
\* a capacity of one body, or the default capacity.
InitSystem ==
    /\ InitStore /\ InitCollisionSystem /\ InitLayerRegistries /\ InitBroadPhaseIdle /\ InitComponentsIdle /\ InitHistory
    /\ rigidBodies = EmptyTable
    /\ System_nextEntityId = 1
    /\ maxRigidBodies \in {1, 512}
    /\ \E r \in {System_createLayer(EmptyTable, 1, DefaultName)} :
           /\ System_layers = r.layers
           /\ System_nextLayerId = r.nextLayerId
    /\ System_gravity = DefaultGravity
    /\ System_resolved = <<>>

\* Two boxes of size 2 that touch on one face, and a third that overlaps the first.
SystemCreateInputs ==
    {[pos |-> <<0, 0, 0>>, dim |-> Box2, mass |-> 0],
     [pos |-> <<200, 0, 0>>, dim |-> Box2, mass |-> 100],
     [pos |-> <<150, 0, 0>>, dim |-> Box2, mass |-> 100]}

NextSystem ==
    \/ \E a \in CreateInputs : System_createRigidBodyCall(a, 0)
    \/ \E a \in SystemCreateInputs : System_createRigidBodyCall(a, 1)
    \/ \E entityId \in 0..MaxBodies : System_removeRigidBodyCall(entityId)
    \/ \E deltaTime \in DtInputs : System_updatePhysicsCall(deltaTime)

SpecSystem == InitSystem /\ [][NextSystem]_vars

(***************************************************************************)
(* The layer registries used directly.                                     *)
(***************************************************************************)
callHistory == <<returned, createdBy, bodyLayer, ticks, atDetection>>

\* The names tried on a registry: the empty name, "Default", the first
\* numbered name, and the first numbered name not yet registered.
NameInputs(W) ==
    {EmptyName, DefaultName, LayerName(1),
     LayerName(Cardinality({name \in DOMAIN W.layerNameToId : name[1] = "Layer"}) + 1)}

LayerIdPairInputs == {<<1, 1>>, <<1, 2>>, <<2, 1>>, <<0, 1>>}

CreateLayerCalled(registry, name, W, r) ==
    last' = [NoCall EXCEPT !.op = "createLayer", !.registry = registry,
                           !.rid = r.id, !.name = name,
                           !.valid = (name # EmptyName),
                           !.had = Has(W.layerNameToId, name),
                           !.same = (r.registry = W),
                           !.threw = r.threw]

\* The ids handed out so far, with the one this call registered.
Assigned(table, name, W, r) ==
    IF r.threw = NoThrow /\ ~Has(W.layerNameToId, name) THEN Put(table, name, r.id) ELSE table

Worker_initializeCall ==
    /\ layerWorker' = Worker_initialize(layerWorker)
    /\ assigned' = [assigned EXCEPT !.worker = Put(EmptyTable, DefaultName, DEFAULT_LAYER)]
    /\ revoked' = [revoked EXCEPT !.worker = {}]
    /\ last' = [NoCall EXCEPT !.op = "initialize"]
    /\ UNCHANGED <<broadPhaseVars, componentVars, storeVars, engineVars, systemVars, layerSystem, callHistory>>

Worker_cleanupCall ==
    /\ layerWorker' = Worker_cleanup(layerWorker)
    /\ assigned' = [assigned EXCEPT !.worker = EmptyTable]
    /\ revoked' = [revoked EXCEPT !.worker = {}]
    /\ last' = [NoCall EXCEPT !.op = "cleanup"]
    /\ UNCHANGED <<broadPhaseVars, componentVars, storeVars, engineVars, systemVars, layerSystem, callHistory>>

Worker_resetCall ==
    /\ layerWorker' = Worker_reset(layerWorker)
    /\ assigned' = [assigned EXCEPT !.worker = EmptyTable]
    /\ revoked' = [revoked EXCEPT !.worker = {}]
    /\ last' = [NoCall EXCEPT !.op = "reset"]
    /\ UNCHANGED <<broadPhaseVars, componentVars, storeVars, engineVars, systemVars, layerSystem, callHistory>>

Worker_createLayerCall(name) ==
    /\ \E r \in {Worker_createLayer(layerWorker, name)} :
           /\ layerWorker' = r.registry
           /\ assigned' = [assigned EXCEPT !.worker = Assigned(@, name, layerWorker, r)]
           /\ CreateLayerCalled("worker", name, layerWorker, r)
    /\ UNCHANGED <<broadPhaseVars, componentVars, revoked, storeVars, engineVars, systemVars, layerSystem, callHistory>>

Worker_setLayerInteractionCall(layerA, layerB, canInteract) ==
    /\ layerWorker' = Worker_setLayerInteraction(layerWorker, layerA, layerB, canInteract)
    /\ revoked' = IF Worker_isValidLayer(layerWorker, layerA) /\ Worker_isValidLayer(layerWorker, layerB)
                  THEN [revoked EXCEPT !.worker = Revoked(@, layerA, layerB, canInteract)]
                  ELSE revoked
    /\ last' = [NoCall EXCEPT !.op = "setLayerInteraction"]
    /\ UNCHANGED <<broadPhaseVars, componentVars, storeVars, engineVars, systemVars, layerSystem, assigned, callHistory>>

NextLayerWorker ==
    \/ Worker_initializeCall
    \/ Worker_cleanupCall
    \/ Worker_resetCall
    \/ \E name \in NameInputs(layerWorker) :
           /\ Has(layerWorker.layerNameToId, name) \/ layerWorker.nextLayerId <= MaxLayerId
           /\ Worker_createLayerCall(name)
    \/ \E pr \in LayerIdPairInputs, b \in BOOLEAN :
           Worker_setLayerInteractionCall(pr[1], pr[2], b)

LayerSystem_resetCall ==
    /\ layerSystem' = LayerSystem_reset(layerSystem)
    /\ assigned' = [assigned EXCEPT !.system = Put(EmptyTable, DefaultName, DEFAULT_LAYER)]
    /\ revoked' = [revoked EXCEPT !.system = {}]
    /\ last' = [NoCall EXCEPT !.op = "reset"]
    /\ UNCHANGED <<broadPhaseVars, componentVars, storeVars, engineVars, systemVars, layerWorker, callHistory>>

LayerSystem_createLayerCall(name) ==
    /\ \E r \in {LayerSystem_createLayer(layerSystem, name)} :
           /\ layerSystem' = r.registry
           /\ assigned' = [assigned EXCEPT !.system = Assigned(@, name, layerSystem, r)]
           /\ CreateLayerCalled("system", name, layerSystem, r)
    /\ UNCHANGED <<broadPhaseVars, componentVars, revoked, storeVars, engineVars, systemVars, layerWorker, callHistory>>

LayerSystem_setLayerInteractionCall(layerA, layerB, canInteract) ==
    /\ \E r \in {LayerSystem_setLayerInteraction(layerSystem, layerA, layerB, canInteract)} :
           /\ layerSystem' = r.registry
           /\ revoked' = IF r.threw = NoThrow
                             THEN [revoked EXCEPT !.system = Revoked(@, layerA, layerB, canInteract)]
                             ELSE revoked
           /\ last' = [NoCall EXCEPT !.op = "setLayerInteraction", !.threw = r.threw]
    /\ UNCHANGED <<broadPhaseVars, componentVars, storeVars, engineVars, systemVars, layerWorker, assigned, callHistory>>

NextLayerSystem ==
    \/ LayerSystem_resetCall
    \/ \E name \in NameInputs(layerSystem) :
           /\ Has(layerSystem.layerNameToId, name) \/ layerSystem.nextLayerId <= MaxLayerId
           /\ LayerSystem_createLayerCall(name)
    \/ \E pr \in LayerIdPairInputs, b \in BOOLEAN :
           LayerSystem_setLayerInteractionCall(pr[1], pr[2], b)

Engine_createLayerCall(name) ==
    /\ nextLayerId <= MaxLayerId
    /\ \E r \in {Engine_createLayer(layers, nextLayerId, name)} :
           /\ layers' = r.layers
           /\ nextLayerId' = r.nextLayerId
           /\ last' = [NoCall EXCEPT !.op = "createLayer", !.registry = "engine",
                                     !.rid = r.id, !.name = name,
                                     !.valid = (name # EmptyName),
                                     !.had = (\E id \in DOMAIN layers : layers[id].name = name),
                                     !.same = (r.layers = layers)]
    /\ UNCHANGED <<broadPhaseVars, componentVars, registryVars, storeVars, legacyRigidBodies, Engine_maxRigidBodies,
                   canLayersInteract, gravity, activeCollisions, lastCollisionCount,
                   systemVars, callHistory>>

NextEngineLayers ==
    \/ \E name \in {DefaultName, LayerName(1)} : Engine_createLayerCall(name)
    \/ \E pr \in LayerIdPairInputs, b \in BOOLEAN :
           Engine_setLayerInteractionCall(pr[1], pr[2], b)

\* The layer table of an initialized engine before any other call.
EngineLayersNew ==
    /\ nextLayerId = DEFAULT_LAYER + 1
    /\ \A id \in DOMAIN layers : layers[id].interactionLayers = <<>>

\* The two registries and the engine's layer table are separate objects that
\* share nothing; a run works on one of them while the others are as
\* constructed.
NextLayers ==
    \/ layerSystem = LayerSystem_new /\ EngineLayersNew /\ NextLayerWorker
    \/ layerWorker = Worker_new /\ EngineLayersNew /\ NextLayerSystem
    \/ layerWorker = Worker_new /\ layerSystem = LayerSystem_new /\ NextEngineLayers

InitLayers ==
    /\ InitStore /\ InitEngine /\ InitSystemIdle /\ InitLayerRegistries /\ InitBroadPhaseIdle /\ InitComponentsIdle /\ InitHistory
    /\ Engine_maxRigidBodies = 512

SpecLayers == InitLayers /\ [][NextLayers]_vars

\* A registry filled to its capacity: createLayer with the names of
\* NameInputs, and the call that empties the registry, on one registry at a
\* time.
NextCapacity ==
    \/ layerSystem = LayerSystem_new /\ Worker_initializeCall
    \/ layerSystem = LayerSystem_new /\ Worker_resetCall
    \/ layerSystem = LayerSystem_new
           /\ \E name \in NameInputs(layerWorker) : Worker_createLayerCall(name)
    \/ layerWorker = Worker_new /\ LayerSystem_resetCall
    \/ layerWorker = Worker_new
           /\ \E name \in NameInputs(layerSystem) : LayerSystem_createLayerCall(name)

SpecCapacity == InitLayers /\ [][NextCapacity]_vars

(***************************************************************************)
(* BroadPhaseWorker (managers/collisionmanager/workers): the broad phase   *)
(* over a vector of RigidBody structs.  Of a RigidBody the worker reads    *)
(* position, shapeData (the half-extents of a box in [1..3]) and isStatic. *)
(***************************************************************************)
getMaxRadius(body) ==
    LET m01 == IF FLt(body.shapeData[1], body.shapeData[2])
               THEN body.shapeData[2] ELSE body.shapeData[1]
    IN  IF FLt(m01, body.shapeData[3]) THEN body.shapeData[3] ELSE m01

isAABBOverlapping(bodyA, bodyB) ==
    LET dx == FSub(bodyA.position[1], bodyB.position[1])
        dy == FSub(bodyA.position[2], bodyB.position[2])
        dz == FSub(bodyA.position[3], bodyB.position[3])
        distSq == FAdd(FAdd(FMul(dx, dx), FMul(dy, dy)), FMul(dz, dz))
        maxRadiusA == getMaxRadius(bodyA)
        maxRadiusB == getMaxRadius(bodyB)
        maxDist == FAdd(maxRadiusA, maxRadiusB)
    IN  FLe(distSq, FMul(maxDist, maxDist))

\* The pairs carry the positions of the two bodies in the vector, from 0.
updateBroadPhase(bodies) ==
    LET Keep(pr) ==
            LET bodyA == bodies[pr[1]]
                bodyB == bodies[pr[2]]
            IN  /\ ~(bodyA.isStatic # 0 /\ bodyB.isStatic # 0)
                /\ isAABBOverlapping(bodyA, bodyB)
        kept == SelectSeq(IndexPairs(Len(bodies)), Keep)
    IN  [k \in 1..Len(kept) |->
            [bodyIdA |-> kept[k][1] - 1, bodyIdB |-> kept[k][2] - 1, isActive |-> 1]]

BroadPhase_updateBroadPhaseCall ==
    /\ BroadPhase_collisionPairs' = updateBroadPhase(BroadPhase_rigidBodies)
    /\ last' = [NoCall EXCEPT !.op = "updateBroadPhase"]
    /\ UNCHANGED <<componentVars, BroadPhase_rigidBodies, storeVars, engineVars, systemVars, registryVars,
                   callHistory>>

\* Boxes at the origin, one corner away (1.9 on every axis), one face away
\* (2 on x) and far away; a cube and a slab; static and dynamic.
BroadPhaseBodyInputs ==
    [position : {<<0, 0, 0>>, <<190, 190, 190>>, <<200, 0, 0>>, <<500, 0, 0>>},
     shapeData : {<<100, 100, 100, 0>>, <<200, 50, 50, 0>>},
     isStatic : {0, 1}]

InitBroadPhase ==
    /\ InitStore /\ InitCollisionSystem /\ InitSystemIdle /\ InitLayerRegistries
    /\ InitComponentsIdle /\ InitHistory
    /\ \E n \in 0..MaxBroadPhaseBodies :
           BroadPhase_rigidBodies \in [1..n -> BroadPhaseBodyInputs]
    /\ BroadPhase_collisionPairs = <<>>

NextBroadPhase == BroadPhase_updateBroadPhaseCall

SpecBroadPhase == InitBroadPhase /\ [][NextBroadPhase]_vars

(***************************************************************************)
(* BaseCPUPhysicsSystem and EnhancedCPUPhysicsCollisionSystem              *)
(* (PhysicsEngine/CPUPhysicsEngine/systems), working on the component      *)
(* store.  The layer callback keeps its default, an empty std::function,   *)
(* and gravity its default; calculateAABB, aabbOverlap and                 *)
(* updateTransformFromPhysics are the same code as in                      *)
(* CPUPhysicsCollisionSystem.                                              *)
(***************************************************************************)
Base_initialize(E) ==
    IF E.initialized THEN [ret |-> TRUE, system |-> E]
    ELSE [ret |-> TRUE, system |-> [E EXCEPT !.initialized = TRUE]]

Base_cleanup(E) ==
    IF ~E.initialized THEN E
    ELSE [E EXCEPT !.enabled = FALSE, !.initialized = FALSE, !.lastEntityCount = 0]

Base_setEnabled(E, enabled) == [E EXCEPT !.enabled = enabled]

Enhanced_integratePhysics(S, g, entityId, deltaTime) ==
    IF \/ ~Has(S.physicsComponents, entityId)
       \/ ~Has(S.transformComponents, entityId) THEN S
    ELSE IF S.physicsComponents[entityId].isStatic THEN S
    ELSE IF S.physicsComponents[entityId].useGravity
    THEN [S EXCEPT !.physicsComponents[entityId].velocity =
             [i \in Axes |-> FAdd(@[i], FMul(g[i], deltaTime))]]
    ELSE S

RECURSIVE Enhanced_IntegrateAll(_, _, _, _)
Enhanced_IntegrateAll(S, g, ents, deltaTime) ==
    IF ents = <<>> THEN S
    ELSE Enhanced_IntegrateAll(Enhanced_integratePhysics(S, g, Head(ents), deltaTime),
                               g, Tail(ents), deltaTime)

\* Every pair of the vector, without any test.
Enhanced_broadPhaseDetection(ents) ==
    LET all == IndexPairs(Len(ents))
    IN  [k \in 1..Len(all) |-> <<ents[all[k][1]], ents[all[k][2]]>>]

\* The callback being empty, every pair may collide.
Enhanced_canEntitiesCollide(entityA, entityB) == TRUE

Enhanced_checkBoxBoxCollision(transformA, colliderA, transformB, colliderB, collision) ==
    IF ~aabbOverlap(calculateAABB(transformA, colliderA), calculateAABB(transformB, colliderB))
    THEN [hit |-> FALSE, collision |-> collision]
    ELSE [hit |-> TRUE,
          collision |->
              [entityA |-> 0, entityB |-> 0,
               penetrationDepth |-> 10,
               normal |-> <<100, 0, 0>>,
               contactPoint |->
                   [i \in Axes |->
                       FMul(FAdd(transformA.position[i], transformB.position[i]), 50)]]]

\* The CollisionPair handed in is the caller's uninitialized local; the
\* function reads none of its fields, and it is used only when hit.
Enhanced_narrowPhaseDetection(S, entityA, entityB) ==
    IF \/ ~Has(S.transformComponents, entityA) \/ ~Has(S.transformComponents, entityB)
       \/ ~Has(S.boxColliderComponents, entityA) \/ ~Has(S.boxColliderComponents, entityB)
    THEN [hit |-> FALSE, collision |-> NoCollision]
    ELSE Enhanced_checkBoxBoxCollision(
             S.transformComponents[entityA], S.boxColliderComponents[entityA],
             S.transformComponents[entityB], S.boxColliderComponents[entityB],
             NoCollision)

Enhanced_detectCollisions(E, S, ents) ==
    IF ~E.broadPhaseEnabled \/ Len(ents) < 2 THEN <<>>
    ELSE LET potentialPairs == Enhanced_broadPhaseDetection(ents)
             Hit(pr) == /\ Enhanced_canEntitiesCollide(pr[1], pr[2])
                        /\ Enhanced_narrowPhaseDetection(S, pr[1], pr[2]).hit
             hits == SelectSeq(potentialPairs, Hit)
         IN  [k \in 1..Len(hits) |->
                 Enhanced_narrowPhaseDetection(S, hits[k][1], hits[k][2]).collision]

Enhanced_separateEntities(S, collision) ==
    IF \/ ~Has(S.transformComponents, collision.entityA)
       \/ ~Has(S.transformComponents, collision.entityB)
    THEN S
    ELSE LET separationDistance == FMul(collision.penetrationDepth, 50)
             SA == [S EXCEPT !.transformComponents[collision.entityA].position =
                       [i \in Axes |-> FSub(@[i], FMul(collision.normal[i], separationDistance))]]
         IN  [SA EXCEPT !.transformComponents[collision.entityB].position =
                 [i \in Axes |-> FAdd(@[i], FMul(collision.normal[i], separationDistance))]]

Enhanced_applyCollisionImpulse(S, collision) ==
    IF \/ ~Has(S.physicsComponents, collision.entityA)
       \/ ~Has(S.physicsComponents, collision.entityB)
    THEN S
    ELSE LET impulse == 50
             SA == [S EXCEPT !.physicsComponents[collision.entityA].velocity =
                       [i \in Axes |-> FSub(@[i], FMul(collision.normal[i], impulse))]]
         IN  [SA EXCEPT !.physicsComponents[collision.entityB].velocity =
                 [i \in Axes |-> FAdd(@[i], FMul(collision.normal[i], impulse))]]

Enhanced_resolveCollision(S, collision) ==
    Enhanced_applyCollisionImpulse(Enhanced_separateEntities(S, collision), collision)

RECURSIVE Enhanced_ResolveAll(_, _)
Enhanced_ResolveAll(S, collisions) ==
    IF collisions = <<>> THEN S
    ELSE Enhanced_ResolveAll(Enhanced_resolveCollision(S, Head(collisions)), Tail(collisions))

Enhanced_resolveCollisions(E, S, collisions) ==
    IF ~E.collisionResponseEnabled THEN S ELSE Enhanced_ResolveAll(S, collisions)

Enhanced_areEntitiesColliding(E, entityA, entityB) ==
    \E k \in DOMAIN E.activeCollisions :
        \/ E.activeCollisions[k].entityA = entityA /\ E.activeCollisions[k].entityB = entityB
        \/ E.activeCollisions[k].entityA = entityB /\ E.activeCollisions[k].entityB = entityA

\* updateInternal for one order in which transformComponents is enumerated.
Enhanced_updateInternal(deltaTime, order) ==
    LET HasAll(entityId) == /\ Has(transformComponents, entityId)
                            /\ Has(physicsComponents, entityId)
                            /\ Has(boxColliderComponents, entityId)
    IN  \E ents \in {SelectSeq(order, HasAll)} :
        \E S1 \in {Enhanced_IntegrateAll(Store, DefaultGravity, ents, deltaTime)} :
        \E collisions \in {IF ents # <<>> THEN Enhanced_detectCollisions(enhanced, S1, ents)
                            ELSE <<>>} :
        \E S2 \in {IF collisions # <<>> THEN Enhanced_resolveCollisions(enhanced, S1, collisions)
                    ELSE S1} :
        \E S3 \in {UpdateTransformAll(S2, ents, deltaTime)} :
            /\ SetStore(S3)
            /\ enhanced' = [enhanced EXCEPT !.activeCollisions = collisions,
                                            !.lastCollisionCount = Len(collisions)]
            /\ atDetection' = [store |-> S1, layers |-> EmptyTable, cb |-> "unset",
                               candidates |-> IF ents # <<>> /\ enhanced.broadPhaseEnabled
                                                 /\ Len(ents) >= 2
                                              THEN Enhanced_broadPhaseDetection(ents)
                                              ELSE <<>>]

\* BaseCPUPhysicsSystem::update(deltaTime).
Enhanced_updateCall(deltaTime) ==
    /\ ticks < MaxTicks
    /\ IF ~enhanced.initialized \/ ~enhanced.enabled
       THEN /\ last' = [NoCall EXCEPT !.op = "Enhanced_update", !.ret = FALSE]
            /\ UNCHANGED <<storeVars, enhanced, atDetection, ticks>>
       ELSE /\ \E order \in Orders(DOMAIN transformComponents) :
                   Enhanced_updateInternal(deltaTime, order)
            /\ ticks' = ticks + 1
            /\ last' = [NoCall EXCEPT !.op = "Enhanced_update", !.ret = TRUE]
    /\ UNCHANGED <<broadPhaseVars, poolVars, collisionManagerVars, lifecycle, registryVars,
                   engineVars, systemVars, returned, createdBy, bodyLayer>>

Enhanced_initializeCall ==
    /\ \E r \in {Base_initialize(enhanced)} :
           /\ enhanced' = r.system
           /\ last' = [NoCall EXCEPT !.op = "Enhanced_initialize", !.ret = r.ret]
           /\ lifecycle' = [lifecycle EXCEPT !.phase =
                               IF ~r.ret THEN @
                               ELSE IF @ = "cleaned" THEN "reinitialized"
                               ELSE IF @ = "constructed" THEN "initialized"
                               ELSE @]
    /\ UNCHANGED <<broadPhaseVars, poolVars, collisionManagerVars, registryVars, storeVars,
                   engineVars, systemVars, callHistory>>

Enhanced_cleanupCall ==
    /\ enhanced' = Base_cleanup(enhanced)
    /\ lifecycle' = IF enhanced.initialized
                    THEN [phase |-> "cleaned", enabledBefore |-> enhanced.enabled]
                    ELSE lifecycle
    /\ last' = [NoCall EXCEPT !.op = "Enhanced_cleanup"]
    /\ UNCHANGED <<broadPhaseVars, poolVars, collisionManagerVars, registryVars, storeVars,
                   engineVars, systemVars, callHistory>>

\* A setEnabled call ends the cleanup-then-initialize sequence the history
\* follows.
Enhanced_setEnabledCall(enabled) ==
    /\ enhanced' = Base_setEnabled(enhanced, enabled)
    /\ lifecycle' = [lifecycle EXCEPT !.phase =
                        IF @ \in {"cleaned", "reinitialized"} THEN "configured" ELSE @]
    /\ last' = [NoCall EXCEPT !.op = "Enhanced_setEnabled"]
    /\ UNCHANGED <<broadPhaseVars, poolVars, collisionManagerVars, registryVars, storeVars,
                   engineVars, systemVars, callHistory>>

NextEnhanced ==
    \/ \E a \in FactoryCreateInputs : Factory_createRigidBody(a, 0)
    \/ Enhanced_initializeCall
    \/ Enhanced_cleanupCall
    \/ \E enabled \in BOOLEAN : Enhanced_setEnabledCall(enabled)
    \/ \E deltaTime \in DtInputs : Enhanced_updateCall(deltaTime)

SpecEnhanced == InitFactory /\ [][NextEnhanced]_vars

(***************************************************************************)
(* The rigid-body id pools: RigidBodyWorker                                *)
(* (managers/physicsmanager/workers) and RigidBodySystem (rigidbody).      *)
(* The worker's rigidBodySystem pointer keeps its default, null.  A        *)
(* RigidBody is the record of the fields the collision workers read.       *)
(* issued is the history of the ids each pool handed out: the id, the body *)
(* it was handed out for, and whether a later remove call took it back.    *)
(***************************************************************************)
BoxBody(position) ==
    [position |-> position, shapeType |-> 1, shapeData |-> <<100, 100, 100, 0>>,
     isStatic |-> 0, restitution |-> 50, friction |-> 30]

\* memset(&body, 0, sizeof(RigidBody))
ZeroBody ==
    [position |-> <<0, 0, 0>>, shapeType |-> 0, shapeData |-> <<0, 0, 0, 0>>,
     isStatic |-> 0, restitution |-> 0, friction |-> 0]

PoolBodyInputs == {BoxBody(<<0, 0, 0>>), BoxBody(<<150, 0, 0>>), BoxBody(<<500, 0, 0>>)}

NullBody == [found |-> FALSE, body |-> ZeroBody]

RigidBodyWorker_initialize(W) ==
    IF W.initialized THEN [ret |-> TRUE, worker |-> W]
    ELSE [ret |-> TRUE,
          worker |-> [W EXCEPT !.rigidBodies = <<>>, !.freeIds = <<>>, !.nextId = 1,
                               !.initialized = TRUE]]

RigidBodyWorker_cleanup(W) ==
    [W EXCEPT !.rigidBodies = <<>>, !.freeIds = <<>>, !.initialized = FALSE]

\* The id is taken before the capacity is looked at.
RigidBodyWorker_addRigidBody(W, body) ==
    IF ~W.initialized THEN [ret |-> 0, worker |-> W]
    ELSE LET id == IF W.freeIds # <<>> THEN W.freeIds[Len(W.freeIds)] ELSE W.nextId
             W1 == IF W.freeIds # <<>>
                   THEN [W EXCEPT !.freeIds = SubSeq(@, 1, Len(@) - 1)]
                   ELSE [W EXCEPT !.nextId = @ + 1]
         IN  IF Len(W1.rigidBodies) >= W1.maxRigidBodies THEN [ret |-> 0, worker |-> W1]
             ELSE [ret |-> id, worker |-> [W1 EXCEPT !.rigidBodies = Append(@, body)]]

\* The predicate of find_if returns true for every body: the iterator is
\* begin(), and the first body of the vector is erased.
RigidBodyWorker_removeRigidBody(W, bodyId) ==
    IF ~W.initialized \/ bodyId = 0 \/ bodyId >= W.nextId THEN [ret |-> FALSE, worker |-> W]
    ELSE IF W.rigidBodies # <<>>
    THEN [ret |-> TRUE,
          worker |-> [W EXCEPT !.rigidBodies = Tail(@), !.freeIds = Append(@, bodyId)]]
    ELSE [ret |-> FALSE, worker |-> W]

RigidBodyWorker_getRigidBody(W, bodyId) ==
    IF ~W.initialized \/ bodyId = 0 \/ W.rigidBodies = <<>> THEN NullBody
    ELSE IF bodyId <= Len(W.rigidBodies)
    THEN [found |-> TRUE, body |-> W.rigidBodies[bodyId]]
    ELSE NullBody

RigidBodySystem_initialize(R, capacity) ==
    [ret |-> TRUE, system |-> [R EXCEPT !.maxRigidBodies = capacity]]

\* 0xFFFFFFFF, held as the signed reading of the same 32 bits: the value the
\* callers compare a returned id with, never an index.
UINT32_MAX == -1

\* Ids are indices into rigidBodies, from 0.  A free id is an index below
\* size(): the vector never shrinks between initialize and cleanup.
RigidBodySystem_createRigidBody(R, body) ==
    IF Len(R.rigidBodies) >= R.maxRigidBodies THEN [ret |-> UINT32_MAX, system |-> R]
    ELSE IF R.freeIds # <<>>
    THEN LET id == R.freeIds[Len(R.freeIds)]
         IN  [ret |-> id,
              system |-> [R EXCEPT !.freeIds = SubSeq(@, 1, Len(@) - 1),
                                   !.rigidBodies[id + 1] = body]]
    ELSE [ret |-> R.nextId,
          system |-> [R EXCEPT !.nextId = @ + 1, !.rigidBodies = Append(@, body)]]

RigidBodySystem_removeRigidBody(R, bodyId) ==
    IF bodyId >= Len(R.rigidBodies) THEN [ret |-> FALSE, system |-> R]
    ELSE [ret |-> TRUE,
          system |-> [R EXCEPT !.freeIds = Append(@, bodyId),
                               !.rigidBodies[bodyId + 1] = ZeroBody]]

RigidBodySystem_getRigidBody(R, bodyId) ==
    IF bodyId >= Len(R.rigidBodies) THEN NullBody
    ELSE [found |-> TRUE, body |-> R.rigidBodies[bodyId + 1]]

\* History: the id was handed out for the body.
Issue(history, id, body) == Append(history, [id |-> id, body |-> body, live |-> TRUE])

\* History: a remove call took the id back.
TakeBack(history, id) ==
    [k \in DOMAIN history |->
        IF history[k].id = id THEN [history[k] EXCEPT !.live = FALSE] ELSE history[k]]

outsidePools == <<broadPhaseVars, enhancedVars, registryVars, storeVars, engineVars,
                  systemVars, callHistory>>

\* One pool is exercised in a run.
WorkerUntouched == rigidBodyWorker = RigidBodyWorker_new /\ issued.worker = <<>>
SystemUntouched == rigidBodySystem = RigidBodySystem_new /\ issued.system = <<>>

RigidBodyWorker_initializeCall ==
    /\ \E r \in {RigidBodyWorker_initialize(rigidBodyWorker)} :
           /\ rigidBodyWorker' = r.worker
           /\ last' = [NoCall EXCEPT !.op = "RigidBodyWorker_initialize", !.ret = r.ret]
    /\ UNCHANGED <<outsidePools, collisionManagerVars, rigidBodySystem, issued>>

RigidBodyWorker_cleanupCall ==
    /\ rigidBodyWorker' = RigidBodyWorker_cleanup(rigidBodyWorker)
    /\ issued' = [issued EXCEPT !.worker =
                      [k \in DOMAIN @ |-> [@[k] EXCEPT !.live = FALSE]]]
    /\ last' = [NoCall EXCEPT !.op = "RigidBodyWorker_cleanup"]
    /\ UNCHANGED <<outsidePools, collisionManagerVars, rigidBodySystem>>

RigidBodyWorker_addRigidBodyCall(body) ==
    /\ Len(issued.worker) < MaxPoolAdds
    /\ \E r \in {RigidBodyWorker_addRigidBody(rigidBodyWorker, body)} :
           /\ rigidBodyWorker' = r.worker
           /\ issued' = IF r.ret # 0
                        THEN [issued EXCEPT !.worker = Issue(@, r.ret, body)]
                        ELSE issued
           /\ last' = [NoCall EXCEPT !.op = "RigidBodyWorker_addRigidBody", !.rid = r.ret,
                                     !.ret = r.ret # 0]
    /\ UNCHANGED <<outsidePools, collisionManagerVars, rigidBodySystem>>

RigidBodyWorker_removeRigidBodyCall(bodyId) ==
    /\ \E r \in {RigidBodyWorker_removeRigidBody(rigidBodyWorker, bodyId)} :
           /\ rigidBodyWorker' = r.worker
           /\ issued' = IF r.ret
                        THEN [issued EXCEPT !.worker = TakeBack(@, bodyId)]
                        ELSE issued
           /\ last' = [NoCall EXCEPT !.op = "RigidBodyWorker_removeRigidBody", !.id = bodyId,
                                     !.ret = r.ret]
    /\ UNCHANGED <<outsidePools, collisionManagerVars, rigidBodySystem>>

RigidBodySystem_initializeCall(capacity) ==
    /\ \E r \in {RigidBodySystem_initialize(rigidBodySystem, capacity)} :
           /\ rigidBodySystem' = r.system
           /\ last' = [NoCall EXCEPT !.op = "RigidBodySystem_initialize", !.ret = r.ret]
    /\ UNCHANGED <<outsidePools, collisionManagerVars, rigidBodyWorker, issued>>

RigidBodySystem_createRigidBodyCall(body) ==
    /\ Len(issued.system) < MaxPoolAdds
    /\ \E r \in {RigidBodySystem_createRigidBody(rigidBodySystem, body)} :
           /\ rigidBodySystem' = r.system
           /\ issued' = IF r.ret # UINT32_MAX
                        THEN [issued EXCEPT !.system = Issue(@, r.ret, body)]
                        ELSE issued
           /\ last' = [NoCall EXCEPT !.op = "RigidBodySystem_createRigidBody", !.rid = r.ret,
                                     !.ret = r.ret # UINT32_MAX]
    /\ UNCHANGED <<outsidePools, collisionManagerVars, rigidBodyWorker>>

RigidBodySystem_removeRigidBodyCall(bodyId) ==
    /\ Len(rigidBodySystem.freeIds) < MaxFreeIds
    /\ \E r \in {RigidBodySystem_removeRigidBody(rigidBodySystem, bodyId)} :
           /\ rigidBodySystem' = r.system
           /\ issued' = IF r.ret
                        THEN [issued EXCEPT !.system = TakeBack(@, bodyId)]
                        ELSE issued
           /\ last' = [NoCall EXCEPT !.op = "RigidBodySystem_removeRigidBody", !.id = bodyId,
                                     !.ret = r.ret]
    /\ UNCHANGED <<outsidePools, collisionManagerVars, rigidBodyWorker>>

\* The capacities RigidBodySystem::initialize is called with.
PoolCapacityInputs == {2, 512}

NextRigidBodyWorker ==
    \/ RigidBodyWorker_initializeCall
    \/ RigidBodyWorker_cleanupCall
    \/ \E body \in PoolBodyInputs : RigidBodyWorker_addRigidBodyCall(body)
    \/ \E bodyId \in 0..(MaxPoolAdds + 1) : RigidBodyWorker_removeRigidBodyCall(bodyId)

NextRigidBodySystem ==
    \/ \E capacity \in PoolCapacityInputs : RigidBodySystem_initializeCall(capacity)
    \/ \E body \in PoolBodyInputs : RigidBodySystem_createRigidBodyCall(body)
    \/ \E bodyId \in 0..MaxPoolAdds : RigidBodySystem_removeRigidBodyCall(bodyId)

NextRigidBodies ==
    \/ SystemUntouched /\ NextRigidBodyWorker
    \/ WorkerUntouched /\ NextRigidBodySystem

SpecRigidBodies == InitFactory /\ [][NextRigidBodies]_vars

(***************************************************************************)
(* CollisionManager (managers/collisionmanager) with its workers:          *)
(* BroadPhaseWorker, DetectCollisionWorker and ContactResolverWorker.      *)
(* The bodies come from a RigidBodyWorker, which holds boxes only, so of   *)
(* the shape dispatch of detectCollisions the box-box branch is the one    *)
(* taken.  updateBroadPhase is handed the worker's vector of bodies;       *)
(* BroadPhase_rigidBodies keeps the vector of the last call.               *)
(* consumed: the contacts now in the list were handed to the resolver.     *)
(***************************************************************************)
\* The largest finite value.
FLT_MAX == PosInf - 1

\* std::sqrt, rounded down to a hundredth.
FSqrt(a) ==
    IF IsNaN(a) \/ a < 0 THEN NaN
    ELSE IF a = PosInf THEN PosInf
    ELSE CHOOSE r \in 0..(a + Unit) : r * r <= a * Unit /\ (r + 1) * (r + 1) > a * Unit

SHAPE_BOX == 1

boxVsBox(bodyA, bodyB) ==
    LET overlap == [i \in Axes |->
                       FSub(FAdd(bodyA.shapeData[i], bodyB.shapeData[i]),
                            FAbs(FSub(bodyA.position[i], bodyB.position[i])))]
        Step(best, i) == IF FLt(overlap[i], best.minOverlap)
                         THEN [minOverlap |-> overlap[i], separationAxis |-> i]
                         ELSE best
        best == Step(Step(Step([minOverlap |-> FLT_MAX, separationAxis |-> 1], 1), 2), 3)
    IN  IF \E i \in Axes : FLe(overlap[i], 0) THEN [hit |-> FALSE, contact |-> <<>>]
        ELSE [hit |-> TRUE,
              contact |->
                  [normal |-> [i \in Axes |->
                                  IF i # best.separationAxis THEN 0
                                  ELSE IF FGt(bodyA.position[i], bodyB.position[i])
                                       THEN 100 ELSE -100],
                   position |-> [i \in Axes |->
                                    FMul(FAdd(bodyA.position[i], bodyB.position[i]), 50)],
                   penetration |-> best.minOverlap]]

combinedRestitution(restA, restB) == FMul(FAdd(restA, restB), 50)

combinedFriction(fricA, fricB) == FSqrt(FMul(fricA, fricB))

\* The contact of one pair, or no contact.
DetectPair(W, pair) ==
    LET bodyA == RigidBodyWorker_getRigidBody(W, pair.bodyIdA)
        bodyB == RigidBodyWorker_getRigidBody(W, pair.bodyIdB)
    IN  IF ~bodyA.found \/ ~bodyB.found THEN <<>>
        ELSE IF bodyA.body.shapeType = SHAPE_BOX /\ bodyB.body.shapeType = SHAPE_BOX
        THEN LET r == boxVsBox(bodyA.body, bodyB.body)
             IN  IF ~r.hit THEN <<>>
                 ELSE <<[normal |-> r.contact.normal,
                         position |-> r.contact.position,
                         penetration |-> r.contact.penetration,
                         bodyIdA |-> pair.bodyIdA,
                         bodyIdB |-> pair.bodyIdB,
                         restitution |-> combinedRestitution(bodyA.body.restitution,
                                                             bodyB.body.restitution),
                         friction |-> combinedFriction(bodyA.body.friction,
                                                       bodyB.body.friction)]>>
        ELSE <<>>

RECURSIVE DetectCollisionWorker_detectCollisions(_, _, _, _)
DetectCollisionWorker_detectCollisions(collisionPairs, W, contacts, maxContacts) ==
    IF collisionPairs = <<>> THEN contacts
    ELSE DetectCollisionWorker_detectCollisions(
             Tail(collisionPairs), W,
             IF Len(contacts) < maxContacts THEN contacts \o DetectPair(W, Head(collisionPairs))
             ELSE contacts,
             maxContacts)

CollisionManager_initialize(M) ==
    IF M.initialized THEN [ret |-> TRUE, manager |-> M]
    ELSE [ret |-> TRUE, manager |-> [M EXCEPT !.initialized = TRUE]]

CollisionManager_cleanup(M) ==
    [M EXCEPT !.contacts = <<>>, !.collisionPairs = <<>>, !.initialized = FALSE]

CollisionManager_updateBroadPhase(M, bodies) ==
    IF ~M.initialized THEN M
    ELSE [M EXCEPT !.collisionPairs = updateBroadPhase(bodies)]

CollisionManager_detectCollisions(M, W) ==
    IF ~M.initialized THEN M
    ELSE LET contacts == DetectCollisionWorker_detectCollisions(M.collisionPairs, W, <<>>,
                                                                M.maxContacts)
         IN  [M EXCEPT !.contacts = contacts, !.contactCount = Len(contacts)]

\* ContactResolverWorker::resolveContacts logs every contact of the list
\* and changes nothing: the contacts it was handed.
CollisionManager_resolveContacts(M) ==
    IF ~M.initialized THEN <<>> ELSE M.contacts

\* updateCollisions only resolves.
CollisionManager_updateCollisions(M) ==
    IF ~M.initialized THEN <<>> ELSE CollisionManager_resolveContacts(M)

outsideManager == <<enhancedVars, poolVars, registryVars, storeVars, engineVars, systemVars,
                    callHistory, BroadPhase_collisionPairs>>

CollisionManager_initializeCall ==
    /\ \E r \in {CollisionManager_initialize(collisionManager)} :
           /\ collisionManager' = r.manager
           /\ last' = [NoCall EXCEPT !.op = "CollisionManager_initialize", !.ret = r.ret]
    /\ UNCHANGED <<outsideManager, BroadPhase_rigidBodies, consumed>>

CollisionManager_cleanupCall ==
    /\ collisionManager' = CollisionManager_cleanup(collisionManager)
    /\ consumed' = FALSE
    /\ last' = [NoCall EXCEPT !.op = "CollisionManager_cleanup"]
    /\ UNCHANGED <<outsideManager, BroadPhase_rigidBodies>>

CollisionManager_updateBroadPhaseCall ==
    /\ collisionManager' = CollisionManager_updateBroadPhase(collisionManager,
                                                             rigidBodyWorker.rigidBodies)
    /\ BroadPhase_rigidBodies' = IF collisionManager.initialized
                                 THEN rigidBodyWorker.rigidBodies
                                 ELSE BroadPhase_rigidBodies
    /\ last' = [NoCall EXCEPT !.op = "CollisionManager_updateBroadPhase",
                              !.ret = collisionManager.initialized]
    /\ UNCHANGED <<outsideManager, consumed>>

CollisionManager_detectCollisionsCall ==
    /\ collisionManager' = CollisionManager_detectCollisions(collisionManager, rigidBodyWorker)
    /\ consumed' = IF collisionManager.initialized THEN FALSE ELSE consumed
    /\ last' = [NoCall EXCEPT !.op = "CollisionManager_detectCollisions",
                              !.ret = collisionManager.initialized]
    /\ UNCHANGED <<outsideManager, BroadPhase_rigidBodies>>

\* last.had: the call resolved contacts an earlier call had resolved.
CollisionManager_updateCollisionsCall(deltaTime) ==
    /\ \E resolved \in {CollisionManager_updateCollisions(collisionManager)} :
           /\ consumed' = (consumed \/ resolved # <<>>)
           /\ last' = [NoCall EXCEPT !.op = "CollisionManager_updateCollisions",
                                     !.ret = resolved # <<>>,
                                     !.had = consumed /\ resolved # <<>>]
    /\ UNCHANGED <<outsideManager, BroadPhase_rigidBodies, collisionManager>>

NextCollisionManager ==
    \/ RigidBodyWorker_initializeCall
    \/ \E body \in PoolBodyInputs : RigidBodyWorker_addRigidBodyCall(body)
    \/ CollisionManager_initializeCall
    \/ CollisionManager_cleanupCall
    \/ CollisionManager_updateBroadPhaseCall
    \/ CollisionManager_detectCollisionsCall
    \/ \E deltaTime \in DtInputs : CollisionManager_updateCollisionsCall(deltaTime)

SpecCollisionManager == InitFactory /\ [][NextCollisionManager]_vars

(***************************************************************************)
(* Properties                                                              *)
(***************************************************************************)
Live == Range(entities)
Tables == <<transformComponents, physicsComponents, boxColliderComponents>>

\* C1: every id returned by createEntity is non-zero and strictly greater
\* than every id returned before it, so no id is handed out twice, also
\* after the entity that held it was destroyed.
C1_IdsNeverReused ==
    \A i \in DOMAIN returned :
        /\ returned[i] # 0
        /\ \A j \in 1..(i - 1) : returned[j] < returned[i]

\* createEntity has just returned while an id handed out earlier is dead.
C1_Witness ==
    /\ last.op = "createEntity"
    /\ \E i \in DOMAIN returned : returned[i] \notin Live

\* C2: addComponent returns false and leaves the store unchanged when the
\* id is not live or already has a component of that type.
C2_AddComponentRefuses ==
    (last.op = "addComponent" /\ (~last.valid \/ last.had))
        => (~last.ret /\ last.same)

\* C3: destroyEntity returns false and changes nothing for an id that is
\* not live, returns true and removes the id with all its components for a
\* live one, and no table ever holds an entry for an id that is not live.
C3_DestroyRemovesAll ==
    /\ \A t \in DOMAIN Tables : DOMAIN Tables[t] \subseteq Live
    /\ last.op = "destroyEntity" =>
          IF last.valid
          THEN /\ last.ret
               /\ last.id \notin Live
               /\ \A t \in DOMAIN Tables : ~Has(Tables[t], last.id)
          ELSE ~last.ret /\ last.same

\* destroyEntity has just removed a live entity that had components.
C3_Witness ==
    last.op = "destroyEntity" /\ last.valid /\ last.had /\ last.ret

\* C4: createRigidBody with an invalid input returns 0 and leaves the
\* body store as it was.
C4_InvalidInputRejected ==
    (last.op = "createRigidBody" /\ ~last.valid) => (last.rid = 0 /\ last.same)

\* C5: a body created by createRigidBody with mass m >= 0 has
\* isStatic = (m = 0), invMass = 0 when m = 0 and 1/m otherwise, and
\* useGravity = ~isStatic.
C5_MassDerivation ==
    \A id \in DOMAIN physicsComponents :
        LET p == physicsComponents[id]
        IN  (createdBy[id] = "createRigidBody" /\ FGe(p.mass, 0)) =>
                /\ p.isStatic = (p.mass = 0)
                /\ p.invMass = (IF p.mass = 0 THEN 0 ELSE FDiv(100, p.mass))
                /\ p.useGravity = ~p.isStatic

\* C6: for every entity in the store, whichever factory operation made it
\* and after any ticks, invMass = 0 exactly when isStatic.
C6_InvMassIffStatic ==
    \A id \in DOMAIN physicsComponents :
        (physicsComponents[id].invMass = 0) <=> physicsComponents[id].isStatic

\* C7: every live entity carries a Transform, a Physics and a BoxCollider
\* component; no partial rigid body survives.
C7_NoPartialRigidBody ==
    \A id \in Live : \A t \in DOMAIN Tables : Has(Tables[t], id)

\* A rigid body is live after another one was destroyed.
C7_Witness ==
    /\ Live # {}
    /\ \E i \in DOMAIN returned : returned[i] \notin Live

\* C8: a tick changes neither the position nor the velocity of an entity
\* whose isStatic is true.
C8_StaticUntouchedByTick ==
    [][ticks' # ticks =>
          \A id \in (DOMAIN physicsComponents) \cap (DOMAIN transformComponents) :
              physicsComponents[id].isStatic =>
                  /\ transformComponents'[id].position = transformComponents[id].position
                  /\ physicsComponents'[id].velocity = physicsComponents[id].velocity]_vars

\* The last tick resolved a contact between a static body that has a
\* velocity of its own and a body that is not static.
C8_Witness ==
    /\ ticks > 0
    /\ \E k \in DOMAIN activeCollisions :
          LET c == activeCollisions[k]
          IN  \E s \in {c.entityA, c.entityB}, d \in {c.entityA, c.entityB} :
                  /\ Has(physicsComponents, s) /\ Has(physicsComponents, d)
                  /\ physicsComponents[s].isStatic
                  /\ physicsComponents[s].velocity # Zero3
                  /\ ~physicsComponents[d].isStatic

\* C9: a tick produces no contact between entities whose layers cannot
\* interact.
C9_LayerFilter ==
    \A k \in DOMAIN activeCollisions :
        Engine_canLayersInteract(atDetection.layers,
                                 bodyLayer[activeCollisions[k].entityA],
                                 bodyLayer[activeCollisions[k].entityB])

PenetrationOnAllAxes(S, a, b) ==
    LET ta == S.transformComponents[a]
        tb == S.transformComponents[b]
        ca == S.boxColliderComponents[a]
        cb == S.boxColliderComponents[b]
        ea == <<ca.width, ca.height, ca.depth>>
        eb == <<cb.width, cb.height, cb.depth>>
    IN  \A i \in Axes :
            FGt(FSub(FAdd(FMul(FMul(ea[i], ta.scale[i]), 50), FMul(FMul(eb[i], tb.scale[i]), 50)),
                     FAbs(FSub(ta.position[i], tb.position[i]))), 0)

\* C10: two engine-created bodies with enabled colliders, not both static,
\* on layers that can interact and penetrating on all three axes at
\* detection time get a contact from the tick.
C10_OverlapGivesContact ==
    ticks > 0 =>
        \A a, b \in Range(atDetection.store.entities) :
            (/\ a < b
             /\ atDetection.store.boxColliderComponents[a].enabled
             /\ atDetection.store.boxColliderComponents[b].enabled
             /\ ~(atDetection.store.physicsComponents[a].isStatic
                  /\ atDetection.store.physicsComponents[b].isStatic)
             /\ Engine_canLayersInteract(atDetection.layers, bodyLayer[a], bodyLayer[b])
             /\ PenetrationOnAllAxes(atDetection.store, a, b))
            => \E k \in DOMAIN activeCollisions :
                   {activeCollisions[k].entityA, activeCollisions[k].entityB} = {a, b}
\* C11: every contact handed to the resolver has penetration strictly
\* greater than 0; boxes that exactly touch yield no contact and are not
\* resolved.
C11_ContactsPenetrate ==
    /\ \A k \in DOMAIN activeCollisions : FGt(activeCollisions[k].penetrationDepth, 0)
    /\ \A k \in DOMAIN System_resolved : FGt(System_resolved[k].penetrationDepth, 0)

\* C12: on PhysicsLayerWorker and on LayerSystem, createLayer with a name
\* that is already registered returns the id that name was given and leaves
\* the registry (layers, next id, interaction matrix) unchanged.
C12_CreateLayerIdempotent ==
    (/\ last.op = "createLayer" /\ last.registry \in {"worker", "system"}
     /\ last.valid /\ last.had) =>
        /\ last.threw = NoThrow
        /\ last.same
        /\ Has(assigned[last.registry], last.name)
        /\ last.rid = assigned[last.registry][last.name]

C12_Witness ==
    /\ last.op = "createLayer" /\ last.had /\ last.name = LayerName(1)
    /\ last.rid > DEFAULT_LAYER
    /\ last.registry = "system"
    /\ LayerSystem_getLayerCount(layerSystem) > 2

\* C13: canInteract(a, b) equals canInteract(b, a) for every pair of
\* registered layers, on PhysicsLayerWorker, on LayerSystem and on the
\* engine's layer table.
C13_InteractionSymmetric ==
    /\ \A a, b \in DOMAIN layerWorker.layerIdToName :
           Worker_canLayersInteract(layerWorker, a, b) = Worker_canLayersInteract(layerWorker, b, a)
    /\ \A a, b \in DOMAIN layerSystem.layerIdToName :
           LayerSystem_canLayersInteract(layerSystem, a, b)
               = LayerSystem_canLayersInteract(layerSystem, b, a)
    /\ \A a, b \in DOMAIN layers :
           Engine_canLayersInteract(layers, a, b) = Engine_canLayersInteract(layers, b, a)

\* Layers 1 and 2 of the worker after their interaction was revoked.
C13_Witness ==
    /\ last.op = "setLayerInteraction"
    /\ Worker_isValidLayer(layerWorker, 1) /\ Worker_isValidLayer(layerWorker, 2)
    /\ ~Worker_canLayersInteract(layerWorker, 1, 2)
    /\ Worker_canLayersInteract(layerWorker, 1, 1)

\* C14: every layer a createLayer call registered interacts with itself and,
\* both ways, with the Default layer, unless setLayerInteraction revoked the
\* pair; on LayerSystem and on the engine's layer table.
C14_NewLayerInteracts ==
    /\ \A L \in DOMAIN layerSystem.layerIdToName \ {DEFAULT_LAYER} :
           \A pr \in {<<L, L>>, <<L, DEFAULT_LAYER>>, <<DEFAULT_LAYER, L>>} :
               \/ pr \in revoked.system
               \/ LayerSystem_canLayersInteract(layerSystem, pr[1], pr[2])
    /\ \A L \in DOMAIN layers \ {DEFAULT_LAYER} :
           \A pr \in {<<L, L>>, <<L, DEFAULT_LAYER>>, <<DEFAULT_LAYER, L>>} :
               \/ pr \in revoked.engine
               \/ Engine_canLayersInteract(layers, pr[1], pr[2])

\* C15: on both registries the Default layer is registered under
\* DEFAULT_LAYER, is a valid layer, and interacts with itself unless
\* setLayerInteraction revoked that.
C15_DefaultAlwaysRegistered ==
    /\ Has(layerWorker.layerNameToId, DefaultName)
    /\ layerWorker.layerNameToId[DefaultName] = DEFAULT_LAYER
    /\ Worker_isValidLayer(layerWorker, DEFAULT_LAYER)
    /\ \/ <<DEFAULT_LAYER, DEFAULT_LAYER>> \in revoked.worker
       \/ Worker_canLayersInteract(layerWorker, DEFAULT_LAYER, DEFAULT_LAYER)
    /\ Has(layerSystem.layerNameToId, DefaultName)
    /\ layerSystem.layerNameToId[DefaultName] = DEFAULT_LAYER
    /\ LayerSystem_isValidLayer(layerSystem, DEFAULT_LAYER)
    /\ \/ <<DEFAULT_LAYER, DEFAULT_LAYER>> \in revoked.system
       \/ LayerSystem_canLayersInteract(layerSystem, DEFAULT_LAYER, DEFAULT_LAYER)

\* C16: a registry never holds more than MAX_LAYERS layers, and a
\* createLayer call with a new non-empty name registers it unless MAX_LAYERS
\* layers are registered, in which case it throws and changes nothing.
C16_SixtyFourLayers ==
    /\ Worker_getLayerCount(layerWorker) <= MAX_LAYERS
    /\ LayerSystem_getLayerCount(layerSystem) <= MAX_LAYERS
    /\ (last.op = "createLayer" /\ last.registry \in {"worker", "system"}
            /\ last.valid /\ ~last.had) =>
           LET W == IF last.registry = "worker" THEN layerWorker ELSE layerSystem
           IN  IF last.threw = NoThrow
               THEN Has(W.layerNameToId, last.name) /\ W.layerNameToId[last.name] = last.rid
               ELSE /\ last.threw = "runtime_error"
                    /\ last.same
                    /\ Cardinality(DOMAIN W.layerNameToId) >= MAX_LAYERS

\* C17: no two layers of the engine's layer table have the same name.
C17_LayerNamesUnique ==
    \A a, b \in DOMAIN layers : a # b => layers[a].name # layers[b].name

\* C18: every body createRigidBody created, static or dynamic, has
\* restitution 0.5 and friction 0.3.
C18_DefaultMaterial ==
    \A id \in DOMAIN physicsComponents :
        createdBy[id] = "createRigidBody" =>
            /\ physicsComponents[id].restitution = 50
            /\ physicsComponents[id].friction = 30

\* C19: the engine never holds more live bodies than the maxRigidBodies it
\* was initialized with.
C19_EngineCapacity == Cardinality(Live) <= Engine_maxRigidBodies

\* C20: the pairs updateBroadPhase produced contain every pair of bodies of
\* the vector, not both static, whose boxes (position - half-extents to
\* position + half-extents) overlap under the inclusive test on all three
\* axes.
C20_BroadPhaseComplete ==
    last.op = "updateBroadPhase" =>
        \A i, j \in DOMAIN BroadPhase_rigidBodies :
            LET bodyA == BroadPhase_rigidBodies[i]
                bodyB == BroadPhase_rigidBodies[j]
                Overlap(k) ==
                    /\ FLe(FSub(bodyA.position[k], bodyA.shapeData[k]),
                           FAdd(bodyB.position[k], bodyB.shapeData[k]))
                    /\ FGe(FAdd(bodyA.position[k], bodyA.shapeData[k]),
                           FSub(bodyB.position[k], bodyB.shapeData[k]))
            IN  (/\ i < j
                 /\ ~(bodyA.isStatic # 0 /\ bodyB.isStatic # 0)
                 /\ \A k \in Axes : Overlap(k)) =>
                    \E p \in DOMAIN BroadPhase_collisionPairs :
                        /\ BroadPhase_collisionPairs[p].bodyIdA = i - 1
                        /\ BroadPhase_collisionPairs[p].bodyIdB = j - 1

\* The entities named by the contacts of the last tick.
InContact == UNION {{activeCollisions[k].entityA, activeCollisions[k].entityB} :
                       k \in DOMAIN activeCollisions}

\* C22: no position is integrated after the resolver has run: an entity
\* that is in no contact of the tick has, after the tick, the position that
\* collision detection read.
C22_PhaseOrder ==
    ticks > 0 =>
        \A id \in DOMAIN transformComponents \cap DOMAIN atDetection.store.transformComponents :
            id \notin InContact =>
                transformComponents[id].position
                    = atDetection.store.transformComponents[id].position

\* C23: no candidate pair of the broad phase has two static entities.
C23_NoStaticStaticCandidate ==
    \A k \in DOMAIN atDetection.candidates :
        LET pr == atDetection.candidates[k]
        IN  ~(/\ atDetection.store.physicsComponents[pr[1]].isStatic
              /\ atDetection.store.physicsComponents[pr[2]].isStatic)

\* C24: a contact whose bodies have invMassA + invMassB = 0 is skipped by
\* the resolver: both entities, when in no other contact, keep the velocity
\* they had at detection, and with it the position when that velocity is 0.
C24_ZeroInvMassSkipped ==
    \A k \in DOMAIN activeCollisions :
        LET c == activeCollisions[k]
            D == atDetection.store
            Alone(id) == \A j \in DOMAIN activeCollisions :
                            j # k => id \notin {activeCollisions[j].entityA,
                                                activeCollisions[j].entityB}
            Kept(id) ==
                (Has(physicsComponents, id) /\ Has(transformComponents, id) /\ Alone(id)) =>
                    /\ physicsComponents[id].velocity = D.physicsComponents[id].velocity
                    /\ D.physicsComponents[id].velocity = Zero3 =>
                           transformComponents[id].position = D.transformComponents[id].position
        IN  FAdd(D.physicsComponents[c.entityA].invMass,
                 D.physicsComponents[c.entityB].invMass) = 0
                => Kept(c.entityA) /\ Kept(c.entityB)

\* C25: every contact of the tick, in CPUPhysicsCollisionSystem and in
\* EnhancedCPUPhysicsCollisionSystem, is the contact of some candidate pair
\* (A, B): its depth is the minimum per-axis penetration of the pair, its
\* normal is zero off that axis and on it +1 when A's centre is greater than
\* B's and -1 otherwise.
C25_NormalOnMinAxis ==
    LET D == atDetection.store
        HalfExtents(id) ==
            LET c == D.boxColliderComponents[id]
                t == D.transformComponents[id]
            IN  <<FMul(FMul(c.width, t.scale[1]), 50), FMul(FMul(c.height, t.scale[2]), 50),
                  FMul(FMul(c.depth, t.scale[3]), 50)>>
        Pen(a, b, i) ==
            FSub(FAdd(HalfExtents(a)[i], HalfExtents(b)[i]),
                 FAbs(FSub(D.transformComponents[a].position[i],
                           D.transformComponents[b].position[i])))
        ContactOf(c, a, b) ==
            \E m \in Axes :
                /\ \A i \in Axes : FLe(Pen(a, b, m), Pen(a, b, i))
                /\ c.penetrationDepth = Pen(a, b, m)
                /\ c.normal = [i \in Axes |->
                                  IF i # m THEN 0
                                  ELSE IF FGt(D.transformComponents[a].position[m],
                                              D.transformComponents[b].position[m])
                                       THEN 100 ELSE -100]
    IN  \A c \in Range(activeCollisions) \cup Range(enhanced.activeCollisions) :
            \E k \in DOMAIN atDetection.candidates :
                ContactOf(c, atDetection.candidates[k][1], atDetection.candidates[k][2])

\* C26: after a tick every contact in the active list of either collision
\* system names two distinct entities that form a candidate pair of that
\* tick, and areEntitiesColliding(a, b) of the enhanced system is true
\* exactly for the candidate pairs whose narrow-phase test produced a contact.
C26_ContactsNameTestedPair ==
    ticks > 0 =>
        /\ \A c \in Range(activeCollisions) \cup Range(enhanced.activeCollisions) :
               /\ c.entityA # c.entityB
               /\ \E k \in DOMAIN atDetection.candidates :
                      atDetection.candidates[k] = <<c.entityA, c.entityB>>
        /\ last.op = "Enhanced_update" /\ last.ret =>
               \A k \in DOMAIN atDetection.candidates :
                   LET pr == atDetection.candidates[k]
                   IN  Enhanced_areEntitiesColliding(enhanced, pr[1], pr[2])
                       <=> Enhanced_narrowPhaseDetection(atDetection.store, pr[1], pr[2]).hit

\* C30: when a system that was initialized and enabled is cleaned up and
\* then initialized again, it is initialized and enabled, and an update call
\* made then runs the per-tick work.
C30_ReinitializeRestores ==
    lifecycle.phase = "reinitialized" /\ lifecycle.enabledBefore =>
        /\ enhanced.initialized
        /\ enhanced.enabled
        /\ last.op = "Enhanced_update" => last.ret

\* The ids a pool history shows as handed out and not taken back.
LiveIds(history) == {history[k].id : k \in {j \in DOMAIN history : history[j].live}}

\* C27: in RigidBodyWorker, getRigidBody(id) returns the body addRigidBody
\* returned id for as long as the id was not removed, and the bodies the
\* worker holds are those of the ids not removed: a successful
\* removeRigidBody(id) took out the body of id and no other.
C27_RemoveAndGetById ==
    LET H == issued.worker
        Held(body) == Cardinality({k \in DOMAIN rigidBodyWorker.rigidBodies :
                                      rigidBodyWorker.rigidBodies[k] = body})
        Owed(body) == Cardinality({k \in DOMAIN H : H[k].live /\ H[k].body = body})
    IN  /\ \A k \in DOMAIN H :
               H[k].live =>
                   RigidBodyWorker_getRigidBody(rigidBodyWorker, H[k].id)
                       = [found |-> TRUE, body |-> H[k].body]
        /\ \A body \in PoolBodyInputs : Held(body) = Owed(body)

\* C29: in both pools, no two live bodies share an id and no id on the
\* free list is the id of a live body.
C29_PoolIdsDisjoint ==
    /\ \A j, k \in DOMAIN issued.worker :
           j # k /\ issued.worker[j].live /\ issued.worker[k].live
               => issued.worker[j].id # issued.worker[k].id
    /\ \A j, k \in DOMAIN issued.system :
           j # k /\ issued.system[j].live /\ issued.system[k].live
               => issued.system[j].id # issued.system[k].id
    /\ Range(rigidBodyWorker.freeIds) \cap LiveIds(issued.worker) = {}
    /\ Range(rigidBodySystem.freeIds) \cap LiveIds(issued.system) = {}

\* C21: a tick of the CollisionManager never resolves contacts that an
\* earlier tick has already resolved.
C21_ContactsResolvedOnce ==
    last.op = "CollisionManager_updateCollisions" => ~last.had

\* C28: when detectCollisions runs on the bodies updateBroadPhase was handed,
\* the body getRigidBody returns for each id of a candidate pair is the body
\* broad-phase tested under that id, and so are the bodies the ids of every
\* contact stand for.
C28_PairIdsDenoteSameBodies ==
    LET Tested(id) == [found |-> TRUE, body |-> BroadPhase_rigidBodies[id + 1]]
        Fetched(id) == RigidBodyWorker_getRigidBody(rigidBodyWorker, id)
    IN  /\ last.op = "CollisionManager_detectCollisions"
        /\ last.ret
        /\ rigidBodyWorker.rigidBodies = BroadPhase_rigidBodies
        => /\ \A k \in DOMAIN collisionManager.collisionPairs :
                  LET pair == collisionManager.collisionPairs[k]
                  IN  /\ Fetched(pair.bodyIdA) = Tested(pair.bodyIdA)
                      /\ Fetched(pair.bodyIdB) = Tested(pair.bodyIdB)
           /\ \A k \in DOMAIN collisionManager.contacts :
                  LET c == collisionManager.contacts[k]
                  IN  /\ Fetched(c.bodyIdA) = Tested(c.bodyIdA)
                      /\ Fetched(c.bodyIdB) = Tested(c.bodyIdB)

====
